---- MODULE Spec2Model ----
(***************************************************************************)
(* VaultFlow: the dashboard (document store, blob store, live listeners,   *)
(* handleCreate, confirmDeletion) and the auth modal (handleSignUp,        *)
(* handleSignIn, handleGoogleSignIn, handlePasswordReset).                 *)
(*                                                                         *)
(* Every await of the source is a step boundary: the synchronous part of a *)
(* handler up to its first await is one action, and each settlement of an  *)
(* awaited backend call (resolved or rejected) is one action that runs the *)
(* code up to the next await, the catch and the finally included.          *)
(* The values a handler reads after an await are those of the render it    *)
(* was created in (its closure); they are kept in hv[c].                   *)
(***************************************************************************)
EXTENDS Integers, Sequences, FiniteSets, TLC

\* ------------------------------------------------------------------ bounds
\* File records (with their blobs) already in the user's store at mount.
PreFiles == 4
\* Mutations (creates and deletes that reach a backend call) started in a run.
MaxOps == 2

\* Auth-modal handler invocations in a run.
MaxRequests == 2

\* ------------------------------------------------------- program constants
FILE_LIMIT == 5

Clients == {"c1", "c2"}
Tabs == {"overview", "files", "notes", "team"}
ModalTypes == {"folder", "file", "note", "member"}
\* The tabs and modal types a run of Spec visits.
FileTabs == {"files"}
FileModalTypes == {"folder", "file"}

\* Ids are positive; NoId stands for null / undefined.
NoId == 0
\* Names are sequences of characters; NoFile stands for selectedFile = null.
NoFile == << >>
FileNames == { <<"a">> }
FormNames == { <<"n">> }
FormTitles == { <<"t">> }
ProgressValues == {50}

EmptyForm == [name |-> << >>, title |-> << >>, content |-> << >>, role |-> "Viewer"]
NoConfirm == [id |-> NoId, type |-> "none", name |-> << >>, storagePath |-> NoId]
NoHandler == [uid |-> "none", type |-> "none", name |-> << >>, title |-> << >>, content |-> << >>,
              role |-> "none", folderId |-> NoId, path |-> NoId, url |-> NoId,
              target |-> NoConfirm]

\* Identity provider: the accounts and the form inputs of a run.
Emails == {"a@x"}
Passwords == {"pw"}
NoUser == "none"
\* The signed-in users of the dashboards (user.uid) and the four collections
\* under users/{uid}.
Uids == {"u1", "u2"}
Collections == {"folders", "files", "notes", "teamMembers"}
Requests == 1..MaxRequests
NoRequest == [kind |-> "none", pc |-> "idle", email |-> "", authenticated |-> FALSE,
              emailVerified |-> FALSE, calls |-> << >>, closed |-> FALSE,
              navigated |-> FALSE, beforeReopen |-> FALSE]

VARIABLES
    \* AuthModal state (authActiveTab and authIsLoading are its activeTab and
    \* isLoading), its isOpen prop and window.location.hash
    authActiveTab, mode, email, password, authIsLoading, error, isOpen, hash,
    \* identity provider: account status per email, auth.currentUser, and the
    \* addresses a verification mail went to
    accounts, currentUser, verificationMails,
    \* the handler invocations of the modal, in the order they started
    req, nreq,
    \* document store (one user's collections, newest first) and blob store
    dbFolders, dbFiles, dbNotes, dbMembers, blobs, nextId,
    \* number of mutations started so far (bounds a run)
    started,
    \* one Dashboard instance per client
    \* whether the instance is mounted, the user useAuth() hands it, and the
    \* registered onSnapshot listeners, each a pair <<uid, collection>>
    mounted, user, listening,
    \* history: the collections whose listener has delivered its first snapshot
    delivered,
    folders, files, notes, members,
    activeTab, currentFolderId, isLoading, isSubmitting, uploadProgress,
    searchQuery, isUpgradeModalOpen, modalOpen, deleteConfirmation,
    selectedFile, formData,
    \* the handler in flight of each client: its position and its closure
    pc, hv,
    \* how the last finished handler of each client ended
    last,
    \* history of the blob store: uploads that completed, uploads that
    \* reported an error, and paths whose download URL was obtained
    uploaded, uploadFailed, urlObtained,
    \* the local dashboard of pages/Dashboard.tsx (folders, files, activeTab,
    \* modalOpen, isSubmitting and selectedFile are its state of these names)
    localFolders, localFiles, localActiveTab, currentFolder, localModalOpen,
    localIsSubmitting, newItemName, localSelectedFile,
    \* the modal's <input>: an uncontrolled element, created empty whenever the
    \* modal is rendered anew
    input,
    \* its handleCreate in flight (position and closure), and the clock Date.now()
    localPc, localHv, localNextId

dbVars == <<dbFolders, dbFiles, dbNotes, dbMembers, blobs, nextId, started>>
mountVars == <<mounted, user, listening, delivered>>
listVars == <<folders, files, notes, members>>
uiVars == <<activeTab, currentFolderId, isLoading, isSubmitting, uploadProgress,
            searchQuery, isUpgradeModalOpen, modalOpen, deleteConfirmation,
            selectedFile, formData>>
histVars == <<uploaded, uploadFailed, urlObtained>>
dashVars == <<dbVars, mountVars, listVars, uiVars, pc, hv, last, histVars>>

modalVars == <<authActiveTab, mode, email, password, authIsLoading, error, isOpen, hash>>
providerVars == <<accounts, currentUser, verificationMails>>
authVars == <<modalVars, providerVars, req, nreq>>

\* The local dashboard (pages/Dashboard.tsx): its useState values, the value of
\* the modal's input element, and its handleCreate in flight.
localVars == <<localFolders, localFiles, localActiveTab, currentFolder, localModalOpen,
               localIsSubmitting, newItemName, localSelectedFile, input, localPc, localHv,
               localNextId>>

vars == <<dashVars, authVars, localVars>>

\* ----------------------------------------------------------------- helpers
Prepend(r, s) == <<r>> \o s
Ids(s) == { s[i].id : i \in 1..Len(s) }
\* collection(db, `users/${uid}/...`): the documents under one user's path.
\* Mutant of OfUser: the query not scoped to the user's path.
OfAnyUser(s, u) == s
OfUser(s, u) == SelectSeq(s, LAMBDA r : r.owner = u)
\* deleteDoc(doc(db, `users/${uid}/${type}`, id))
RemoveDoc(s, u, id) == SelectSeq(s, LAMBDA r : ~(r.owner = u /\ r.id = id))

\* String.prototype.toLowerCase on the model's alphabet.
LowerChar(ch) == CASE ch = "A" -> "a" [] ch = "B" -> "b" [] ch = "N" -> "n"
                   [] ch = "T" -> "t" [] OTHER -> ch
\* Mutant of toLowerCase: the string compared as it is.
toLowerCaseOmitted(s) == s
toLowerCase(s) == [i \in 1..Len(s) |-> LowerChar(s[i])]
\* String.prototype.includes
includes(s, q) ==
    \E i \in 0..(Len(s) - Len(q)) : \A j \in 1..Len(q) : s[i + j] = q[j]

\* getDownloadURL: the URL the blob store hands out for a path.
URLOf(path) == 100 + path

\* ----------------------------------------------------------- derived state

filteredFiles(c) ==
    SelectSeq(files[c], LAMBDA f :
        /\ (IF currentFolderId[c] # NoId THEN f.folderId = currentFolderId[c]
                                         ELSE f.folderId = NoId)
        /\ includes(toLowerCase(f.name), toLowerCase(searchQuery[c])))

filteredFolders(c) ==
    SelectSeq(folders[c], LAMBDA f :
        /\ currentFolderId[c] = NoId
        /\ includes(toLowerCase(f.name), toLowerCase(searchQuery[c])))

\* Mutant of hasReachedLimit: the limit counted per folder.
hasReachedLimitInFolder(c) == Len(filteredFiles(c)) >= FILE_LIMIT

hasReachedLimit(c) == Len(files[c]) >= FILE_LIMIT

\* The page behind the overlays is rendered (not the loading view) ...
Rendered(c) == mounted[c] /\ ~isLoading[c]
\* ... and no full-screen backdrop (create modal, delete confirmation) covers it.
PageFree(c) == Rendered(c) /\ modalOpen[c] = "none" /\ deleteConfirmation[c].id = NoId

\* What the content area shows of each collection: renderFiles maps
\* filteredFolders and filteredFiles, renderNotes maps notes.
displayedFolders(c) == IF activeTab[c] = "files" THEN filteredFolders(c) ELSE << >>
displayedFiles(c) == IF activeTab[c] = "files" THEN filteredFiles(c) ELSE << >>
displayedNotes(c) == IF activeTab[c] = "notes" THEN notes[c] ELSE << >>

\* ------------------------------------------------------------------- Init
PreFolder == [id |-> 1, owner |-> "u1", name |-> <<"d">>]
PreFile(i) == [id |-> i, owner |-> "u1", name |-> <<"a">>, folderId |-> (IF i % 2 = 0 THEN 1 ELSE NoId),
               storagePath |-> i, downloadURL |-> URLOf(i)]
\* newest first: the file created last has the highest id
PreFileList(n) == [i \in 1..n |-> PreFile(n + 1 - i)]

InitStore(n) ==
    /\ dbFolders = <<PreFolder>>
    /\ dbFiles = PreFileList(n)
    /\ dbNotes = << >>
    /\ dbMembers = << >>
    /\ blobs = 1..n
    /\ nextId = PreFiles + 1
    /\ started = 0
    /\ uploaded = 1..n
    /\ uploadFailed = {}
    /\ urlObtained = 1..n

InitClients(M) ==
    /\ mounted = [c \in Clients |-> c \in M]
    /\ user = [c \in Clients |-> IF c \in M THEN "u1" ELSE NoUser]
    /\ listening = [c \in Clients |-> IF c \in M THEN {"u1"} \X Collections ELSE {}]
    /\ delivered = [c \in Clients |-> {}]
    /\ folders = [c \in Clients |-> << >>]
    /\ files = [c \in Clients |-> << >>]
    /\ notes = [c \in Clients |-> << >>]
    /\ members = [c \in Clients |-> << >>]
    /\ activeTab = [c \in Clients |-> "overview"]
    /\ currentFolderId = [c \in Clients |-> NoId]
    /\ isLoading = [c \in Clients |-> TRUE]
    /\ isSubmitting = [c \in Clients |-> FALSE]
    /\ uploadProgress = [c \in Clients |-> 0]
    /\ searchQuery = [c \in Clients |-> << >>]
    /\ isUpgradeModalOpen = [c \in Clients |-> FALSE]
    /\ modalOpen = [c \in Clients |-> "none"]
    /\ deleteConfirmation = [c \in Clients |-> NoConfirm]
    /\ selectedFile = [c \in Clients |-> NoFile]
    /\ formData = [c \in Clients |-> EmptyForm]
    /\ pc = [c \in Clients |-> "idle"]
    /\ hv = [c \in Clients |-> NoHandler]
    /\ last = [c \in Clients |-> "none"]

\* useState initial values of the local dashboard.
EmptyInput == [text |-> << >>, file |-> NoFile]
NoLocalHandler == [type |-> "none", name |-> << >>, file |-> NoFile, parentId |-> NoId,
                   folders |-> << >>, files |-> << >>]
InitLocal ==
    /\ localFolders = << >>
    /\ localFiles = << >>
    /\ localActiveTab = "overview"
    /\ currentFolder = NoId
    /\ localModalOpen = "none"
    /\ localIsSubmitting = FALSE
    /\ newItemName = << >>
    /\ localSelectedFile = NoFile
    /\ input = EmptyInput
    /\ localPc = "idle"
    /\ localHv = NoLocalHandler
    /\ localNextId = 1

InitModal ==
    /\ authActiveTab = "signin"
    /\ mode = "default"
    /\ email = ""
    /\ password = ""
    /\ authIsLoading = FALSE
    /\ error = "none"
    /\ isOpen = FALSE
    /\ hash = "#/"
    /\ currentUser = NoUser
    /\ verificationMails = {}
    /\ req = [r \in Requests |-> NoRequest]
    /\ nreq = 0

Init ==
    /\ InitStore(PreFiles)
    /\ InitClients({"c1"})
    /\ InitModal
    /\ InitLocal
    /\ accounts = [e \in Emails |-> "none"]

\* --------------------------------------------------- Firestore listeners
SnapFolders(c) ==
    /\ \E u \in Uids :
        /\ <<u, "folders">> \in listening[c]
        /\ ("folders" \notin delivered[c] \/ folders[c] # OfUser(dbFolders, u))
        /\ folders' = [folders EXCEPT ![c] = OfUser(dbFolders, u)]
    /\ delivered' = [delivered EXCEPT ![c] = @ \cup {"folders"}]
    /\ UNCHANGED <<dbVars, mounted, user, listening, authVars, localVars, files, notes,
                   members, uiVars,
                   pc, hv, last, histVars>>

SnapFiles(c) ==
    /\ \E u \in Uids :
        /\ <<u, "files">> \in listening[c]
        /\ ("files" \notin delivered[c] \/ files[c] # OfUser(dbFiles, u))
        /\ files' = [files EXCEPT ![c] = OfUser(dbFiles, u)]
    /\ delivered' = [delivered EXCEPT ![c] = @ \cup {"files"}]
    /\ UNCHANGED <<dbVars, mounted, user, listening, authVars, localVars, folders, notes,
                   members, uiVars,
                   pc, hv, last, histVars>>

\* Mutant of SnapNotes: the delivered documents put in front of the list
\* instead of replacing it.
SnapNotesMerges(c) ==
    /\ \E u \in Uids :
        /\ <<u, "notes">> \in listening[c]
        /\ ("notes" \notin delivered[c] \/ notes[c] # OfUser(dbNotes, u))
        /\ notes' = [notes EXCEPT ![c] = OfUser(dbNotes, u) \o @]
    /\ delivered' = [delivered EXCEPT ![c] = @ \cup {"notes"}]
    /\ UNCHANGED <<dbVars, mounted, user, listening, authVars, localVars, folders, files,
                   members, uiVars,
                   pc, hv, last, histVars>>

\* Mutant of SnapNotes: a one-time read (getDocs) in place of the listener.
SnapNotesOnce(c) ==
    /\ \E u \in Uids :
        /\ <<u, "notes">> \in listening[c]
        /\ "notes" \notin delivered[c]
        /\ notes' = [notes EXCEPT ![c] = OfUser(dbNotes, u)]
    /\ delivered' = [delivered EXCEPT ![c] = @ \cup {"notes"}]
    /\ UNCHANGED <<dbVars, mounted, user, listening, authVars, localVars, folders, files,
                   members, uiVars,
                   pc, hv, last, histVars>>

SnapNotes(c) ==
    /\ \E u \in Uids :
        /\ <<u, "notes">> \in listening[c]
        /\ ("notes" \notin delivered[c] \/ notes[c] # OfUser(dbNotes, u))
        /\ notes' = [notes EXCEPT ![c] = OfUser(dbNotes, u)]
    /\ delivered' = [delivered EXCEPT ![c] = @ \cup {"notes"}]
    /\ UNCHANGED <<dbVars, mounted, user, listening, authVars, localVars, folders, files,
                   members, uiVars,
                   pc, hv, last, histVars>>

SnapMembers(c) ==
    /\ \E u \in Uids :
        /\ <<u, "teamMembers">> \in listening[c]
        /\ ("teamMembers" \notin delivered[c] \/ members[c] # OfUser(dbMembers, u))
        /\ members' = [members EXCEPT ![c] = OfUser(dbMembers, u)]
    /\ isLoading' = [isLoading EXCEPT ![c] = FALSE]
    /\ delivered' = [delivered EXCEPT ![c] = @ \cup {"teamMembers"}]
    /\ UNCHANGED <<dbVars, mounted, user, listening, authVars, localVars, folders, files, notes,
                   activeTab, currentFolderId,
                   isSubmitting, uploadProgress, searchQuery, isUpgradeModalOpen,
                   modalOpen, deleteConfirmation, selectedFile, formData,
                   pc, hv, last, histVars>>

\* ------------------------------------------------- mount and teardown
\* Identity gate (the auth context and the router around the dashboard): the
\* dashboard is rendered only for a signed-in user, one instance at a time.
\* An instance is created once the handler of the previous one has settled.
GateAdmits(c, u) == ~mounted[c] /\ user[c] = NoUser /\ pc[c] = "idle"

\* First render and the effect on [user]: the state holds its useState
\* initial values and the four listeners are registered under users/{uid}.
Mount(c, u) ==
    /\ GateAdmits(c, u)
    /\ mounted' = [mounted EXCEPT ![c] = TRUE]
    /\ user' = [user EXCEPT ![c] = u]
    /\ listening' = [listening EXCEPT ![c] = {u} \X Collections]
    /\ delivered' = [delivered EXCEPT ![c] = {}]
    /\ UNCHANGED <<dbVars, authVars, localVars, listVars, uiVars, pc, hv, last, histVars>>

\* The component's state is discarded with the instance; a later instance
\* starts from the useState initial values.
DiscardState(c) ==
    /\ folders' = [folders EXCEPT ![c] = << >>]
    /\ files' = [files EXCEPT ![c] = << >>]
    /\ notes' = [notes EXCEPT ![c] = << >>]
    /\ members' = [members EXCEPT ![c] = << >>]
    /\ activeTab' = [activeTab EXCEPT ![c] = "overview"]
    /\ currentFolderId' = [currentFolderId EXCEPT ![c] = NoId]
    /\ isLoading' = [isLoading EXCEPT ![c] = TRUE]
    /\ isSubmitting' = [isSubmitting EXCEPT ![c] = FALSE]
    /\ uploadProgress' = [uploadProgress EXCEPT ![c] = 0]
    /\ searchQuery' = [searchQuery EXCEPT ![c] = << >>]
    /\ isUpgradeModalOpen' = [isUpgradeModalOpen EXCEPT ![c] = FALSE]
    /\ modalOpen' = [modalOpen EXCEPT ![c] = "none"]
    /\ deleteConfirmation' = [deleteConfirmation EXCEPT ![c] = NoConfirm]
    /\ selectedFile' = [selectedFile EXCEPT ![c] = NoFile]
    /\ formData' = [formData EXCEPT ![c] = EmptyForm]

\* Mutant of Unmount: the cleanup leaves out unsubNotes().
UnmountKeepsNotesListener(c) ==
    /\ mounted[c]
    /\ mounted' = [mounted EXCEPT ![c] = FALSE]
    /\ user' = [user EXCEPT ![c] = NoUser]
    /\ listening' = [listening EXCEPT ![c] = { l \in @ : l[2] = "notes" }]
    /\ delivered' = [delivered EXCEPT ![c] = {}]
    /\ DiscardState(c)
    /\ UNCHANGED <<dbVars, authVars, localVars, pc, hv, last, histVars>>

\* Teardown: the effect's cleanup calls unsubFolders, unsubFiles, unsubNotes
\* and unsubMembers. A handler in flight is not touched.
Unmount(c) ==
    /\ mounted[c]
    /\ mounted' = [mounted EXCEPT ![c] = FALSE]
    /\ user' = [user EXCEPT ![c] = NoUser]
    /\ listening' = [listening EXCEPT ![c] = {}]
    /\ delivered' = [delivered EXCEPT ![c] = {}]
    /\ DiscardState(c)
    /\ UNCHANGED <<dbVars, authVars, localVars, pc, hv, last, histVars>>

\* Sign Out button of the header: await signOut(); onNavigate('/'). Nobody is
\* signed in afterwards, so the gate takes the dashboard down.
handleSignOut(c) ==
    /\ PageFree(c)
    /\ Unmount(c)

\* ------------------------------------------------------------ UI events
\* What no UI event and no listener changes.
BackendSame == UNCHANGED <<dbVars, mountVars, authVars, localVars, listVars, pc, hv, last,
                           histVars>>

\* Tab navigation: setActiveTab(tab); setCurrentFolderId(null).
SwitchTab(c, tab) ==
    /\ PageFree(c)
    /\ activeTab' = [activeTab EXCEPT ![c] = tab]
    /\ currentFolderId' = [currentFolderId EXCEPT ![c] = NoId]
    /\ BackendSame
    /\ UNCHANGED <<isLoading, isSubmitting, uploadProgress, searchQuery,
                   isUpgradeModalOpen, modalOpen, deleteConfirmation, selectedFile, formData>>

\* Click on a displayed folder row: setCurrentFolderId(folder.id).
OpenFolder(c, id) ==
    /\ PageFree(c)
    /\ activeTab[c] = "files"
    /\ id \in Ids(filteredFolders(c))
    /\ currentFolderId' = [currentFolderId EXCEPT ![c] = id]
    /\ BackendSame
    /\ UNCHANGED <<activeTab, isLoading, isSubmitting, uploadProgress, searchQuery,
                   isUpgradeModalOpen, modalOpen, deleteConfirmation, selectedFile, formData>>

\* Breadcrumb "Root": setCurrentFolderId(null).
GoRoot(c) ==
    /\ PageFree(c)
    /\ activeTab[c] = "files"
    /\ currentFolderId[c] # NoId
    /\ currentFolderId' = [currentFolderId EXCEPT ![c] = NoId]
    /\ BackendSame
    /\ UNCHANGED <<activeTab, isLoading, isSubmitting, uploadProgress, searchQuery,
                   isUpgradeModalOpen, modalOpen, deleteConfirmation, selectedFile, formData>>

\* Search bar, rendered on the files and notes tabs: setSearchQuery(value).
SetSearchQuery(c, q) ==
    /\ PageFree(c)
    /\ activeTab[c] \in {"files", "notes"}
    /\ q # searchQuery[c]
    /\ searchQuery' = [searchQuery EXCEPT ![c] = q]
    /\ BackendSame
    /\ UNCHANGED <<activeTab, currentFolderId, isLoading, isSubmitting, uploadProgress,
                   isUpgradeModalOpen, modalOpen, deleteConfirmation, selectedFile, formData>>

\* The tab whose toolbar holds the button that opens the modal of a type.
TabOfModal(type) == CASE type = "note" -> "notes" [] type = "member" -> "team"
                      [] OTHER -> "files"

\* New Folder / Add File (disabled={hasReachedLimit}) / New Note / Add Member.
OpenModal(c, type) ==
    /\ PageFree(c)
    /\ activeTab[c] = TabOfModal(type)
    /\ type = "file" => ~hasReachedLimit(c)
    /\ modalOpen' = [modalOpen EXCEPT ![c] = type]
    /\ BackendSame
    /\ UNCHANGED <<activeTab, currentFolderId, isLoading, isSubmitting, uploadProgress,
                   searchQuery, isUpgradeModalOpen, deleteConfirmation, selectedFile, formData>>

\* Mutant of CloseModal: closing the modal also abandons the handler in flight.
CloseModalCancels(c) ==
    /\ Rendered(c)
    /\ modalOpen[c] # "none"
    /\ modalOpen' = [modalOpen EXCEPT ![c] = "none"]
    /\ isSubmitting' = [isSubmitting EXCEPT ![c] = FALSE]
    /\ pc' = [pc EXCEPT ![c] = "idle"]
    /\ hv' = [hv EXCEPT ![c] = NoHandler]
    /\ UNCHANGED <<dbVars, mountVars, authVars, localVars, listVars, last, histVars, activeTab,
                   currentFolderId, isLoading, uploadProgress, searchQuery,
                   isUpgradeModalOpen, deleteConfirmation, selectedFile, formData>>

\* X and Cancel: setModalOpen({type: null}); the backdrop does the same when
\* !isSubmitting. Nothing else is reset.
CloseModal(c) ==
    /\ Rendered(c)
    /\ modalOpen[c] # "none"
    /\ modalOpen' = [modalOpen EXCEPT ![c] = "none"]
    /\ BackendSame
    /\ UNCHANGED <<activeTab, currentFolderId, isLoading, isSubmitting, uploadProgress,
                   searchQuery, isUpgradeModalOpen, deleteConfirmation, selectedFile, formData>>

\* File input: setSelectedFile(e.target.files?.[0] || null).
ChooseFile(c, f) ==
    /\ Rendered(c)
    /\ modalOpen[c] = "file"
    /\ f # selectedFile[c]
    /\ selectedFile' = [selectedFile EXCEPT ![c] = f]
    /\ BackendSame
    /\ UNCHANGED <<activeTab, currentFolderId, isLoading, isSubmitting, uploadProgress,
                   searchQuery, isUpgradeModalOpen, modalOpen, deleteConfirmation, formData>>

\* Folder name / member name input: setFormData({...formData, name}).
TypeName(c, v) ==
    /\ Rendered(c)
    /\ modalOpen[c] \in {"folder", "member"}
    /\ v # formData[c].name
    /\ formData' = [formData EXCEPT ![c].name = v]
    /\ BackendSame
    /\ UNCHANGED <<activeTab, currentFolderId, isLoading, isSubmitting, uploadProgress,
                   searchQuery, isUpgradeModalOpen, modalOpen, deleteConfirmation, selectedFile>>

\* Note title input: setFormData({...formData, title}).
TypeTitle(c, v) ==
    /\ Rendered(c)
    /\ modalOpen[c] = "note"
    /\ v # formData[c].title
    /\ formData' = [formData EXCEPT ![c].title = v]
    /\ BackendSame
    /\ UNCHANGED <<activeTab, currentFolderId, isLoading, isSubmitting, uploadProgress,
                   searchQuery, isUpgradeModalOpen, modalOpen, deleteConfirmation, selectedFile>>

\* The rows with a delete button that the active tab displays, each as the
\* value its button passes to setDeleteConfirmation.
Deletable(c) ==
    CASE activeTab[c] = "files" ->
            { [id |-> f.id, type |-> "folders", name |-> f.name, storagePath |-> NoId] :
                f \in { filteredFolders(c)[i] : i \in 1..Len(filteredFolders(c)) } }
            \cup
            { [id |-> f.id, type |-> "files", name |-> f.name, storagePath |-> f.storagePath] :
                f \in { filteredFiles(c)[i] : i \in 1..Len(filteredFiles(c)) } }
      [] activeTab[c] = "notes" ->
            { [id |-> n.id, type |-> "notes", name |-> n.title, storagePath |-> NoId] :
                n \in { notes[c][i] : i \in 1..Len(notes[c]) } }
      [] activeTab[c] = "team" ->
            { [id |-> m.id, type |-> "teamMembers", name |-> m.name, storagePath |-> NoId] :
                m \in { members[c][i] : i \in 1..Len(members[c]) } }
      [] OTHER -> {}

\* Trash button of a row: setDeleteConfirmation({id, type, name, storagePath?}).
AskDelete(c, item) ==
    /\ PageFree(c)
    /\ item \in Deletable(c)
    /\ deleteConfirmation' = [deleteConfirmation EXCEPT ![c] = item]
    /\ BackendSame
    /\ UNCHANGED <<activeTab, currentFolderId, isLoading, isSubmitting, uploadProgress,
                   searchQuery, isUpgradeModalOpen, modalOpen, selectedFile, formData>>

\* Cancel of the delete confirmation: setDeleteConfirmation(null).
CancelDelete(c) ==
    /\ Rendered(c)
    /\ deleteConfirmation[c].id # NoId
    /\ deleteConfirmation' = [deleteConfirmation EXCEPT ![c] = NoConfirm]
    /\ BackendSame
    /\ UNCHANGED <<activeTab, currentFolderId, isLoading, isSubmitting, uploadProgress,
                   searchQuery, isUpgradeModalOpen, modalOpen, selectedFile, formData>>

\* UPGRADE link of the limit banner, shown when hasReachedLimit.
OpenUpgrade(c) ==
    /\ PageFree(c)
    /\ activeTab[c] = "files"
    /\ hasReachedLimit(c)
    /\ ~isUpgradeModalOpen[c]
    /\ isUpgradeModalOpen' = [isUpgradeModalOpen EXCEPT ![c] = TRUE]
    /\ BackendSame
    /\ UNCHANGED <<activeTab, currentFolderId, isLoading, isSubmitting, uploadProgress,
                   searchQuery, modalOpen, deleteConfirmation, selectedFile, formData>>

\* UpgradeModal onClose: setIsUpgradeModalOpen(false).
CloseUpgrade(c) ==
    /\ Rendered(c)
    /\ isUpgradeModalOpen[c]
    /\ isUpgradeModalOpen' = [isUpgradeModalOpen EXCEPT ![c] = FALSE]
    /\ BackendSame
    /\ UNCHANGED <<activeTab, currentFolderId, isLoading, isSubmitting, uploadProgress,
                   searchQuery, modalOpen, deleteConfirmation, selectedFile, formData>>

\* ---------------------------------------------------------- handleCreate
Untitled == <<"U">>
OrDefault(v, d) == IF v = << >> THEN d ELSE v

\* A run starts at most MaxOps mutations.
CanStart == started < MaxOps

\* Mutant of CanSubmit: the submit button not disabled while isSubmitting.
CanSubmitWhileSubmitting(c) ==
    /\ Rendered(c)
    /\ modalOpen[c] # "none"
    /\ modalOpen[c] = "file" => selectedFile[c] # NoFile
    /\ modalOpen[c] \in {"folder", "member"} => formData[c].name # << >>
    /\ modalOpen[c] = "note" => formData[c].title # << >>

\* The submit button is enabled and the browser accepts the form:
\* disabled={isSubmitting || (type === 'file' && !selectedFile)}, inputs `required`.
CanSubmit(c) ==
    /\ Rendered(c)
    /\ modalOpen[c] # "none"
    /\ ~isSubmitting[c]
    /\ modalOpen[c] = "file" => selectedFile[c] # NoFile
    /\ modalOpen[c] \in {"folder", "member"} => formData[c].name # << >>
    /\ modalOpen[c] = "note" => formData[c].title # << >>

\* if (!selectedFile) return;  ... finally { setIsSubmitting(false) }
ReturnNoFile(c) ==
    /\ last' = [last EXCEPT ![c] = "no_file"]
    /\ UNCHANGED <<dbVars, mountVars, authVars, localVars, listVars, uiVars, pc, hv, histVars>>

\* Mutant of RejectAtLimit: the `return` left out, so that the handler goes on
\* to close the modal and reset the form.
RejectAtLimitThenReset(c) ==
    /\ isUpgradeModalOpen' = [isUpgradeModalOpen EXCEPT ![c] = TRUE]
    /\ modalOpen' = [modalOpen EXCEPT ![c] = "none"]
    /\ formData' = [formData EXCEPT ![c] = EmptyForm]
    /\ selectedFile' = [selectedFile EXCEPT ![c] = NoFile]
    /\ uploadProgress' = [uploadProgress EXCEPT ![c] = 0]
    /\ last' = [last EXCEPT ![c] = "limit"]
    /\ UNCHANGED <<dbVars, mountVars, authVars, localVars, listVars, activeTab, currentFolderId,
                   isLoading, isSubmitting, searchQuery, deleteConfirmation, pc, hv,
                   histVars>>

\* if (hasReachedLimit) { setIsUpgradeModalOpen(true); return; }
\* ... finally { setIsSubmitting(false) }
RejectAtLimit(c) ==
    /\ isUpgradeModalOpen' = [isUpgradeModalOpen EXCEPT ![c] = TRUE]
    /\ last' = [last EXCEPT ![c] = "limit"]
    /\ UNCHANGED <<dbVars, mountVars, authVars, localVars, listVars, activeTab,
                   currentFolderId, isLoading,
                   isSubmitting, uploadProgress, searchQuery, modalOpen,
                   deleteConfirmation, selectedFile, formData, pc, hv, histVars>>

\* fileId, storagePath, uploadBytesResumable(storageRef, selectedFile); the
\* handler then awaits the upload promise.
StartUpload(c) ==
    /\ CanStart
    /\ started' = started + 1
    /\ nextId' = nextId + 1
    /\ isSubmitting' = [isSubmitting EXCEPT ![c] = TRUE]
    /\ pc' = [pc EXCEPT ![c] = "uploading"]
    /\ hv' = [hv EXCEPT ![c] = [NoHandler EXCEPT !.uid = user[c], !.type = "file",
                                                 !.name = selectedFile[c],
                                                 !.folderId = currentFolderId[c],
                                                 !.path = nextId]]
    /\ UNCHANGED <<dbFolders, dbFiles, dbNotes, dbMembers, blobs, mountVars, authVars,
                   localVars, listVars,
                   activeTab, currentFolderId, isLoading, uploadProgress, searchQuery,
                   isUpgradeModalOpen, modalOpen, deleteConfirmation, selectedFile,
                   formData, last, histVars>>

\* await addDoc(collection(db, `${basePath}/folders|notes|teamMembers`), {...})
StartAddDoc(c) ==
    /\ CanStart
    /\ started' = started + 1
    /\ nextId' = nextId + 1
    /\ isSubmitting' = [isSubmitting EXCEPT ![c] = TRUE]
    /\ pc' = [pc EXCEPT ![c] = "create_addDoc"]
    /\ hv' = [hv EXCEPT ![c] =
                [NoHandler EXCEPT !.uid = user[c], !.type = modalOpen[c],
                                  !.name = IF modalOpen[c] = "folder"
                                              THEN OrDefault(formData[c].name, Untitled)
                                              ELSE formData[c].name,
                                  !.title = OrDefault(formData[c].title, Untitled),
                                  !.content = formData[c].content,
                                  !.role = formData[c].role,
                                  !.path = nextId]]
    /\ UNCHANGED <<dbFolders, dbFiles, dbNotes, dbMembers, blobs, mountVars, authVars,
                   localVars, listVars,
                   activeTab, currentFolderId, isLoading, uploadProgress, searchQuery,
                   isUpgradeModalOpen, modalOpen, deleteConfirmation, selectedFile,
                   formData, last, histVars>>

\* The form's onSubmit, up to the first await.
handleCreate(c) ==
    /\ CanSubmit(c)
    /\ IF modalOpen[c] = "file"
          THEN IF selectedFile[c] = NoFile THEN ReturnNoFile(c)
               ELSE IF hasReachedLimit(c) THEN RejectAtLimit(c)
               ELSE StartUpload(c)
          ELSE StartAddDoc(c)

\* Lines 219-222 and the finally: the modal is closed and the form reset.
ResetAfterCreate(c) ==
    /\ modalOpen' = [modalOpen EXCEPT ![c] = "none"]
    /\ formData' = [formData EXCEPT ![c] = EmptyForm]
    /\ selectedFile' = [selectedFile EXCEPT ![c] = NoFile]
    /\ uploadProgress' = [uploadProgress EXCEPT ![c] = 0]
    /\ isSubmitting' = [isSubmitting EXCEPT ![c] = FALSE]
    /\ pc' = [pc EXCEPT ![c] = "idle"]
    /\ hv' = [hv EXCEPT ![c] = NoHandler]
    /\ last' = [last EXCEPT ![c] = "created"]

\* catch (err) { console.error } finally { setIsSubmitting(false) }
CatchAndFinish(c, how) ==
    /\ isSubmitting' = [isSubmitting EXCEPT ![c] = FALSE]
    /\ pc' = [pc EXCEPT ![c] = "idle"]
    /\ hv' = [hv EXCEPT ![c] = NoHandler]
    /\ last' = [last EXCEPT ![c] = how]
    /\ UNCHANGED <<mountVars, authVars, localVars, listVars, activeTab, currentFolderId, isLoading,
                   uploadProgress, searchQuery, isUpgradeModalOpen, modalOpen,
                   deleteConfirmation, selectedFile, formData>>

\* addDoc of a folder, note or member resolved: the document is in the store.
AddDocOk(c) ==
    /\ pc[c] = "create_addDoc"
    /\ dbFolders' = IF hv[c].type = "folder"
                       THEN Prepend([id |-> hv[c].path, owner |-> hv[c].uid, name |-> hv[c].name], dbFolders)
                       ELSE dbFolders
    /\ dbNotes' = IF hv[c].type = "note"
                     THEN Prepend([id |-> hv[c].path, owner |-> hv[c].uid, title |-> hv[c].title,
                                   content |-> hv[c].content], dbNotes)
                     ELSE dbNotes
    /\ dbMembers' = IF hv[c].type = "member"
                       THEN Prepend([id |-> hv[c].path, owner |-> hv[c].uid, name |-> hv[c].name,
                                     role |-> hv[c].role], dbMembers)
                       ELSE dbMembers
    /\ ResetAfterCreate(c)
    /\ UNCHANGED <<dbFiles, blobs, nextId, started, mountVars, authVars, localVars, listVars,
                   activeTab, currentFolderId,
                   isLoading, searchQuery, isUpgradeModalOpen, deleteConfirmation, histVars>>

\* addDoc of a folder, note or member rejected.
AddDocFail(c) ==
    /\ pc[c] = "create_addDoc"
    /\ CatchAndFinish(c, "create_failed")
    /\ UNCHANGED <<dbVars, histVars>>

\* 'state_changed' progress callback: setUploadProgress(progress), which has an
\* effect only while the component is mounted.
UploadProgress(c, p) ==
    /\ pc[c] = "uploading"
    /\ mounted[c]
    /\ p > uploadProgress[c]
    /\ uploadProgress' = [uploadProgress EXCEPT ![c] = p]
    /\ UNCHANGED <<dbVars, mountVars, authVars, localVars, listVars, activeTab,
                   currentFolderId, isLoading,
                   isSubmitting, searchQuery, isUpgradeModalOpen, modalOpen,
                   deleteConfirmation, selectedFile, formData, pc, hv, last, histVars>>

\* Mutant of UploadError: the error callback wired to the completion path.
UploadErrorResolves(c) ==
    /\ pc[c] = "uploading"
    /\ uploadFailed' = uploadFailed \cup {hv[c].path}
    /\ pc' = [pc EXCEPT ![c] = "get_url"]
    /\ UNCHANGED <<dbVars, mountVars, authVars, localVars, listVars, uiVars, hv, last, uploaded,
                   urlObtained>>

\* Mutant of UploadError: the upload started again after an error.
UploadErrorRetries(c) ==
    /\ pc[c] = "uploading"
    /\ hv[c].path \notin uploadFailed
    /\ uploadFailed' = uploadFailed \cup {hv[c].path}
    /\ UNCHANGED <<dbVars, mountVars, authVars, localVars, listVars, uiVars, pc, hv, last, uploaded,
                   urlObtained>>

\* Error callback: reject(error); the handler's catch and finally run.
UploadError(c) ==
    /\ pc[c] = "uploading"
    /\ uploadFailed' = uploadFailed \cup {hv[c].path}
    /\ CatchAndFinish(c, "upload_failed")
    /\ UNCHANGED <<dbVars, uploaded, urlObtained>>

\* Completion callback: the blob is stored; getDownloadURL is awaited.
UploadComplete(c) ==
    /\ pc[c] = "uploading"
    /\ blobs' = blobs \cup {hv[c].path}
    /\ uploaded' = uploaded \cup {hv[c].path}
    /\ pc' = [pc EXCEPT ![c] = "get_url"]
    /\ UNCHANGED <<dbFolders, dbFiles, dbNotes, dbMembers, nextId, started, mountVars,
                   authVars, localVars, listVars,
                   uiVars, hv, last, uploadFailed, urlObtained>>

\* getDownloadURL resolved: addDoc of the file record is awaited.
GetURLOk(c) ==
    /\ pc[c] = "get_url"
    /\ urlObtained' = urlObtained \cup {hv[c].path}
    /\ hv' = [hv EXCEPT ![c].url = URLOf(hv[c].path)]
    /\ pc' = [pc EXCEPT ![c] = "file_addDoc"]
    /\ UNCHANGED <<dbVars, mountVars, authVars, localVars, listVars, uiVars, last, uploaded,
                   uploadFailed>>

\* getDownloadURL or addDoc rejected inside the async completion callback: the
\* callback's promise rejects, resolve/reject of the upload promise is never
\* called, and the handler stays suspended at its await.
CallbackRejected(c) ==
    /\ pc[c] \in {"get_url", "file_addDoc"}
    /\ pc' = [pc EXCEPT ![c] = "hung"]
    /\ UNCHANGED <<dbVars, mountVars, authVars, localVars, listVars, uiVars, hv, last, histVars>>

\* Mutant of AddFileDocOk: the new record also put into the local list.
AddFileDocOkOptimistic(c) ==
    /\ pc[c] = "file_addDoc"
    /\ dbFiles' = Prepend([id |-> hv[c].path, owner |-> hv[c].uid, name |-> hv[c].name,
                           folderId |-> hv[c].folderId, storagePath |-> hv[c].path,
                           downloadURL |-> hv[c].url], dbFiles)
    /\ files' = [files EXCEPT ![c] = Prepend(dbFiles'[1], @)]
    /\ ResetAfterCreate(c)
    /\ UNCHANGED <<dbFolders, dbNotes, dbMembers, blobs, nextId, started, mountVars, authVars,
                   localVars,
                   folders, notes, members, activeTab, currentFolderId, isLoading,
                   searchQuery, isUpgradeModalOpen, deleteConfirmation, histVars>>

\* addDoc of the file record resolved; resolve(true); lines 219-222; finally.
AddFileDocOk(c) ==
    /\ pc[c] = "file_addDoc"
    /\ dbFiles' = Prepend([id |-> hv[c].path, owner |-> hv[c].uid, name |-> hv[c].name,
                           folderId |-> hv[c].folderId, storagePath |-> hv[c].path,
                           downloadURL |-> hv[c].url], dbFiles)
    /\ ResetAfterCreate(c)
    /\ UNCHANGED <<dbFolders, dbNotes, dbMembers, blobs, nextId, started, mountVars, authVars,
                   localVars, listVars,
                   activeTab, currentFolderId, isLoading, searchQuery,
                   isUpgradeModalOpen, deleteConfirmation, histVars>>

\* ------------------------------------------------------- confirmDeletion
\* Mutant of confirmDeletion: the record deletion issued first, without the
\* blob deletion before it.
confirmDeletionRecordFirst(c) ==
    /\ Rendered(c)
    /\ deleteConfirmation[c].id # NoId
    /\ ~isSubmitting[c]
    /\ CanStart
    /\ started' = started + 1
    /\ isSubmitting' = [isSubmitting EXCEPT ![c] = TRUE]
    /\ hv' = [hv EXCEPT ![c] = [NoHandler EXCEPT !.uid = user[c], !.type = "delete",
                                                 !.target = deleteConfirmation[c]]]
    /\ pc' = [pc EXCEPT ![c] = "del_doc"]
    /\ UNCHANGED <<dbFolders, dbFiles, dbNotes, dbMembers, blobs, nextId, mountVars,
                   authVars, localVars, listVars, activeTab, currentFolderId, isLoading,
                   uploadProgress, searchQuery, isUpgradeModalOpen, modalOpen,
                   deleteConfirmation, selectedFile, formData, last, histVars>>

\* Delete button of the confirmation (disabled={isSubmitting}), up to the
\* first await: deleteObject for a file with a storagePath, else deleteDoc.
confirmDeletion(c) ==
    /\ Rendered(c)
    /\ deleteConfirmation[c].id # NoId
    /\ ~isSubmitting[c]
    /\ CanStart
    /\ started' = started + 1
    /\ isSubmitting' = [isSubmitting EXCEPT ![c] = TRUE]
    /\ hv' = [hv EXCEPT ![c] = [NoHandler EXCEPT !.uid = user[c], !.type = "delete",
                                                 !.target = deleteConfirmation[c]]]
    /\ pc' = [pc EXCEPT ![c] =
                IF /\ deleteConfirmation[c].type = "files"
                   /\ deleteConfirmation[c].storagePath # NoId
                   THEN "del_blob" ELSE "del_doc"]
    /\ UNCHANGED <<dbFolders, dbFiles, dbNotes, dbMembers, blobs, nextId, mountVars, authVars,
                   localVars, listVars, activeTab, currentFolderId, isLoading,
                   uploadProgress, searchQuery, isUpgradeModalOpen, modalOpen,
                   deleteConfirmation, selectedFile, formData, last, histVars>>

\* deleteObject resolved (the object existed and is gone); deleteDoc is awaited.
DeleteBlobOk(c) ==
    /\ pc[c] = "del_blob"
    /\ hv[c].target.storagePath \in blobs
    /\ blobs' = blobs \ {hv[c].target.storagePath}
    /\ pc' = [pc EXCEPT ![c] = "del_doc"]
    /\ UNCHANGED <<dbFolders, dbFiles, dbNotes, dbMembers, nextId, started, mountVars,
                   authVars, localVars, listVars,
                   uiVars, hv, last, histVars>>

\* Mutant of DeleteBlobFail: the rejection swallowed, the record deletion
\* awaited next.
DeleteBlobFailIgnored(c) ==
    /\ pc[c] = "del_blob"
    /\ pc' = [pc EXCEPT ![c] = "del_doc"]
    /\ UNCHANGED <<dbVars, mountVars, authVars, localVars, listVars, uiVars, hv, last, histVars>>

\* deleteObject rejected (no such object, or the call failed): catch; finally.
DeleteBlobFail(c) ==
    /\ pc[c] = "del_blob"
    /\ CatchAndFinish(c, "blob_failed")
    /\ UNCHANGED <<dbVars, histVars>>

\* deleteDoc resolved: the document is gone (deleting a missing document also
\* resolves); setDeleteConfirmation(null); finally.
DeleteDocOk(c) ==
    /\ pc[c] = "del_doc"
    /\ LET t == hv[c].target IN
        /\ dbFolders' = IF t.type = "folders" THEN RemoveDoc(dbFolders, hv[c].uid, t.id) ELSE dbFolders
        /\ dbFiles' = IF t.type = "files" THEN RemoveDoc(dbFiles, hv[c].uid, t.id) ELSE dbFiles
        /\ dbNotes' = IF t.type = "notes" THEN RemoveDoc(dbNotes, hv[c].uid, t.id) ELSE dbNotes
        /\ dbMembers' = IF t.type = "teamMembers" THEN RemoveDoc(dbMembers, hv[c].uid, t.id)
                                                  ELSE dbMembers
    /\ deleteConfirmation' = [deleteConfirmation EXCEPT ![c] = NoConfirm]
    /\ isSubmitting' = [isSubmitting EXCEPT ![c] = FALSE]
    /\ pc' = [pc EXCEPT ![c] = "idle"]
    /\ hv' = [hv EXCEPT ![c] = NoHandler]
    /\ last' = [last EXCEPT ![c] = "deleted"]
    /\ UNCHANGED <<blobs, nextId, started, mountVars, authVars, localVars, listVars, activeTab,
                   currentFolderId,
                   isLoading, uploadProgress, searchQuery, isUpgradeModalOpen,
                   modalOpen, selectedFile, formData, histVars>>

\* Mutant of DeleteDocFail: the confirmation cleared in the finally.
DeleteDocFailClears(c) ==
    /\ pc[c] = "del_doc"
    /\ deleteConfirmation' = [deleteConfirmation EXCEPT ![c] = NoConfirm]
    /\ isSubmitting' = [isSubmitting EXCEPT ![c] = FALSE]
    /\ pc' = [pc EXCEPT ![c] = "idle"]
    /\ hv' = [hv EXCEPT ![c] = NoHandler]
    /\ last' = [last EXCEPT ![c] = "doc_failed"]
    /\ UNCHANGED <<dbVars, mountVars, authVars, localVars, listVars, activeTab, currentFolderId,
                   isLoading, uploadProgress, searchQuery, isUpgradeModalOpen,
                   modalOpen, selectedFile, formData, histVars>>

\* deleteDoc rejected: catch; finally. Nothing is restored.
DeleteDocFail(c) ==
    /\ pc[c] = "del_doc"
    /\ CatchAndFinish(c, "doc_failed")
    /\ UNCHANGED <<dbVars, histVars>>

\* ================================================================ AuthModal
\* What no auth action changes.
DashSame == UNCHANGED <<dashVars, localVars>>

\* The next handler invocation of the modal.
NewRequest == nreq + 1
CanRequest == nreq < MaxRequests

\* The parent shows the modal; the effect on isOpen resets the modal's state.
\* The handlers still awaiting a call go on (beforeReopen records which).
OpenAuth ==
    /\ ~isOpen
    /\ isOpen' = TRUE
    /\ error' = "none"
    /\ authIsLoading' = FALSE
    /\ email' = ""
    /\ password' = ""
    /\ mode' = "default"
    /\ authActiveTab' = "signin"
    /\ req' = [r \in Requests |->
                 [req[r] EXCEPT !.beforeReopen = @ \/ req[r].pc \notin {"idle", "done"}]]
    /\ UNCHANGED <<hash, providerVars, nreq>>
    /\ DashSame

\* Backdrop or X: onClose(); the parent hides the modal.
CloseAuth ==
    /\ isOpen
    /\ isOpen' = FALSE
    /\ UNCHANGED <<authActiveTab, mode, email, password, authIsLoading, error, hash,
                   providerVars, req, nreq>>
    /\ DashSame

\* The forms that show the email input, and the one that shows the password.
TypeEmail(e) ==
    /\ isOpen
    /\ mode \in {"default", "forgot-password"}
    /\ e # email
    /\ email' = e
    /\ UNCHANGED <<authActiveTab, mode, password, authIsLoading, error, isOpen, hash,
                   providerVars, req, nreq>>
    /\ DashSame

TypePassword(p) ==
    /\ isOpen
    /\ mode = "default"
    /\ p # password
    /\ password' = p
    /\ UNCHANGED <<authActiveTab, mode, email, authIsLoading, error, isOpen, hash,
                   providerVars, req, nreq>>
    /\ DashSame

\* Sign In / Sign Up tab buttons.
SetAuthTab(t) ==
    /\ isOpen
    /\ mode = "default"
    /\ t # authActiveTab
    /\ authActiveTab' = t
    /\ UNCHANGED <<mode, email, password, authIsLoading, error, isOpen, hash,
                   providerVars, req, nreq>>
    /\ DashSame

\* "Forgot password?" (sign-in tab), "Back" of the forgot-password form, and
\* "Back to Sign In" of the two confirmation screens.
SetMode(m) ==
    /\ isOpen
    /\ \/ mode = "default" /\ authActiveTab = "signin" /\ m = "forgot-password"
       \/ mode = "forgot-password" /\ m = "default"
       \/ mode \in {"verification-sent", "reset-sent"} /\ m = "default"
    /\ mode' = m
    /\ authActiveTab' = IF mode \in {"verification-sent", "reset-sent"}
                           THEN "signin" ELSE authActiveTab
    /\ UNCHANGED <<email, password, authIsLoading, error, isOpen, hash,
                   providerVars, req, nreq>>
    /\ DashSame

\* A handler invocation starts its first awaited call.
Started(kind, at, call) ==
    [NoRequest EXCEPT !.kind = kind, !.pc = at, !.email = email, !.calls = <<call>>]

\* The user-facing text for a provider error code (lib/firebaseUtils): some
\* message for every code.
getFirebaseErrorMessage(code) == "provider"

\* Mutant of AuthCatch: the error is logged and no message is set.
AuthCatchSilent(r) ==
    /\ error' = error
    /\ authIsLoading' = FALSE
    /\ req' = [req EXCEPT ![r].pc = "done", ![r].beforeReopen = FALSE]
    /\ UNCHANGED <<authActiveTab, mode, email, password, isOpen, hash, nreq>>

\* catch: setError(getFirebaseErrorMessage(err.code)); finally: setIsLoading(false).
AuthCatch(r) ==
    /\ error' = getFirebaseErrorMessage("auth/error")
    /\ authIsLoading' = FALSE
    /\ req' = [req EXCEPT ![r].pc = "done", ![r].beforeReopen = FALSE]
    /\ UNCHANGED <<authActiveTab, mode, email, password, isOpen, hash, nreq>>

\* Mutant of BlocksAccess: the verification check left out.
BlocksAccessNever(verified) == FALSE

\* !userCredential.user.emailVerified
BlocksAccess(verified) == ~verified

\* ------------------------------------------------------------ handleSignUp
handleSignUp ==
    /\ isOpen /\ mode = "default" /\ authActiveTab = "signup" /\ ~authIsLoading
    /\ IF email = "" \/ password = ""
          THEN /\ error' = "required"
               /\ authIsLoading' = FALSE
               /\ UNCHANGED <<req, nreq>>
          ELSE /\ CanRequest
               /\ error' = "none"
               /\ authIsLoading' = TRUE
               /\ req' = [req EXCEPT ![NewRequest] =
                            Started("signup", "create", "createUserWithEmailAndPassword")]
               /\ nreq' = NewRequest
    /\ UNCHANGED <<authActiveTab, mode, email, password, isOpen, hash, providerVars>>
    /\ DashSame

\* createUserWithEmailAndPassword resolved: the account exists, unverified, and
\* is signed in; sendEmailVerification is awaited.
CreateUserOk(r) ==
    /\ req[r].pc = "create"
    /\ accounts[req[r].email] = "none"
    /\ accounts' = [accounts EXCEPT ![req[r].email] = "unverified"]
    /\ currentUser' = req[r].email
    /\ req' = [req EXCEPT ![r].pc = "verify", ![r].authenticated = TRUE,
                          ![r].calls = Append(@, "sendEmailVerification")]
    /\ UNCHANGED <<modalVars, verificationMails, nreq>>
    /\ DashSame

\* createUserWithEmailAndPassword rejected (email in use, weak password, network).
CreateUserFail(r) ==
    /\ req[r].pc = "create"
    /\ AuthCatch(r)
    /\ UNCHANGED providerVars
    /\ DashSame

\* ------------------------------------------------------------ handleSignIn
\* Mutant of handleSignIn: the required-fields check left out.
handleSignInUnchecked ==
    /\ isOpen /\ mode = "default" /\ authActiveTab = "signin" /\ ~authIsLoading
    /\ CanRequest
    /\ error' = "none"
    /\ authIsLoading' = TRUE
    /\ req' = [req EXCEPT ![NewRequest] =
                 Started("signin", "signin", "signInWithEmailAndPassword")]
    /\ nreq' = NewRequest
    /\ UNCHANGED <<authActiveTab, mode, email, password, isOpen, hash, providerVars>>
    /\ DashSame

handleSignIn ==
    /\ isOpen /\ mode = "default" /\ authActiveTab = "signin" /\ ~authIsLoading
    /\ IF email = "" \/ password = ""
          THEN /\ error' = "required"
               /\ authIsLoading' = FALSE
               /\ UNCHANGED <<req, nreq>>
          ELSE /\ CanRequest
               /\ error' = "none"
               /\ authIsLoading' = TRUE
               /\ req' = [req EXCEPT ![NewRequest] =
                            Started("signin", "signin", "signInWithEmailAndPassword")]
               /\ nreq' = NewRequest
    /\ UNCHANGED <<authActiveTab, mode, email, password, isOpen, hash, providerVars>>
    /\ DashSame

\* The code after a sign-in call resolved with a user credential: an unverified
\* user gets a verification mail (awaited), a verified one the dashboard.
AfterCredential(r, who, verified) ==
    IF BlocksAccess(verified)
       THEN /\ req' = [req EXCEPT ![r].pc = "verify", ![r].authenticated = TRUE,
                                  ![r].email = who, ![r].emailVerified = verified,
                                  ![r].calls = Append(@, "sendEmailVerification")]
            /\ UNCHANGED <<modalVars>>
       ELSE \* onClose(); window.location.hash = '#/dashboard'; finally
            /\ req' = [req EXCEPT ![r].pc = "done", ![r].beforeReopen = FALSE,
                                  ![r].authenticated = TRUE,
                                  ![r].email = who, ![r].emailVerified = verified,
                                  ![r].closed = TRUE, ![r].navigated = TRUE]
            /\ isOpen' = FALSE
            /\ hash' = "#/dashboard"
            /\ authIsLoading' = FALSE
            /\ UNCHANGED <<authActiveTab, mode, email, password, error>>

\* signInWithEmailAndPassword resolved.
SignInOk(r) ==
    /\ req[r].pc = "signin"
    /\ accounts[req[r].email] # "none"
    /\ currentUser' = req[r].email
    /\ AfterCredential(r, req[r].email, accounts[req[r].email] = "verified")
    /\ UNCHANGED <<accounts, verificationMails, nreq>>
    /\ DashSame

\* signInWithEmailAndPassword rejected (no such user, wrong password, network).
SignInFail(r) ==
    /\ req[r].pc = "signin"
    /\ AuthCatch(r)
    /\ UNCHANGED providerVars
    /\ DashSame

\* ------------------------------------- sendEmailVerification and signOut
\* (the same three lines in handleSignUp, handleSignIn and handleGoogleSignIn)
\* sendEmailVerification resolved: the mail is out; signOut is awaited.
SendVerificationOk(r) ==
    /\ req[r].pc = "verify"
    /\ verificationMails' = verificationMails \cup {req[r].email}
    /\ req' = [req EXCEPT ![r].pc = "signout", ![r].calls = Append(@, "signOut")]
    /\ UNCHANGED <<modalVars, accounts, currentUser, nreq>>
    /\ DashSame

\* sendEmailVerification rejected (too many requests, network): catch; finally.
SendVerificationFail(r) ==
    /\ req[r].pc = "verify"
    /\ AuthCatch(r)
    /\ UNCHANGED providerVars
    /\ DashSame

\* signOut resolved: setMode('verification-sent'); finally.
SignOutOk(r) ==
    /\ req[r].pc = "signout"
    /\ currentUser' = NoUser
    /\ mode' = "verification-sent"
    /\ authIsLoading' = FALSE
    /\ req' = [req EXCEPT ![r].pc = "done", ![r].beforeReopen = FALSE]
    /\ UNCHANGED <<authActiveTab, email, password, error, isOpen, hash,
                   accounts, verificationMails, nreq>>
    /\ DashSame

\* signOut rejected: catch; finally.
SignOutFail(r) ==
    /\ req[r].pc = "signout"
    /\ AuthCatch(r)
    /\ UNCHANGED providerVars
    /\ DashSame

\* ------------------------------------------------------ handleGoogleSignIn
handleGoogleSignIn ==
    /\ isOpen /\ mode = "default" /\ ~authIsLoading
    /\ CanRequest
    /\ error' = "none"
    /\ authIsLoading' = TRUE
    /\ req' = [req EXCEPT ![NewRequest] =
                 [NoRequest EXCEPT !.kind = "google", !.pc = "popup",
                                   !.calls = <<"signInWithPopup">>]]
    /\ nreq' = NewRequest
    /\ UNCHANGED <<authActiveTab, mode, email, password, isOpen, hash, providerVars>>
    /\ DashSame

\* signInWithPopup resolved with the user of the chosen Google account; the
\* provider decides whether its email counts as verified.
PopupOk(r, e, verified) ==
    /\ req[r].pc = "popup"
    /\ accounts[e] = "verified" => verified
    /\ accounts' = [accounts EXCEPT ![e] = IF verified THEN "verified" ELSE "unverified"]
    /\ currentUser' = e
    /\ AfterCredential(r, e, verified)
    /\ UNCHANGED <<verificationMails, nreq>>
    /\ DashSame

\* signInWithPopup rejected; no message for 'auth/popup-closed-by-user'.
PopupFail(r, closedByUser) ==
    /\ req[r].pc = "popup"
    /\ error' = IF closedByUser THEN error
                             ELSE getFirebaseErrorMessage("auth/popup-blocked")
    /\ authIsLoading' = FALSE
    /\ req' = [req EXCEPT ![r].pc = "done", ![r].beforeReopen = FALSE]
    /\ UNCHANGED <<authActiveTab, mode, email, password, isOpen, hash, nreq, providerVars>>
    /\ DashSame

\* ----------------------------------------------------- handlePasswordReset
handlePasswordReset ==
    /\ isOpen /\ mode = "forgot-password" /\ ~authIsLoading
    /\ IF email = ""
          THEN /\ error' = "required"
               /\ UNCHANGED <<authIsLoading, req, nreq>>
          ELSE /\ CanRequest
               /\ error' = "none"
               /\ authIsLoading' = TRUE
               /\ req' = [req EXCEPT ![NewRequest] =
                            Started("reset", "send_reset", "sendPasswordResetEmail")]
               /\ nreq' = NewRequest
    /\ UNCHANGED <<authActiveTab, mode, email, password, isOpen, hash, providerVars>>
    /\ DashSame

\* sendPasswordResetEmail resolved: setMode('reset-sent'); finally.
ResetOk(r) ==
    /\ req[r].pc = "send_reset"
    /\ mode' = "reset-sent"
    /\ authIsLoading' = FALSE
    /\ req' = [req EXCEPT ![r].pc = "done", ![r].beforeReopen = FALSE]
    /\ UNCHANGED <<authActiveTab, email, password, error, isOpen, hash, nreq, providerVars>>
    /\ DashSame

ResetFail(r) ==
    /\ req[r].pc = "send_reset"
    /\ AuthCatch(r)
    /\ UNCHANGED providerVars
    /\ DashSame

\* The owner of the address follows the link of a verification mail.
FollowVerificationLink(e) ==
    /\ e \in verificationMails
    /\ accounts[e] = "unverified"
    /\ accounts' = [accounts EXCEPT ![e] = "verified"]
    /\ UNCHANGED <<modalVars, currentUser, verificationMails, req, nreq>>
    /\ DashSame

AuthNext ==
    \/ OpenAuth
    \/ CloseAuth
    \/ \E e \in Emails \cup {""} : TypeEmail(e)
    \/ \E p \in Passwords \cup {""} : TypePassword(p)
    \/ \E t \in {"signin", "signup"} : SetAuthTab(t)
    \/ \E m \in {"default", "forgot-password"} : SetMode(m)
    \/ handleSignUp
    \/ handleSignIn
    \/ handleGoogleSignIn
    \/ handlePasswordReset
    \/ \E r \in Requests :
        \/ CreateUserOk(r)
        \/ CreateUserFail(r)
        \/ SignInOk(r)
        \/ SignInFail(r)
        \/ SendVerificationOk(r)
        \/ SendVerificationFail(r)
        \/ SignOutOk(r)
        \/ SignOutFail(r)
        \/ \E e \in Emails, v \in BOOLEAN : PopupOk(r, e, v)
        \/ \E closedByUser \in BOOLEAN : PopupFail(r, closedByUser)
        \/ ResetOk(r)
        \/ ResetFail(r)
    \/ \E e \in Emails : FollowVerificationLink(e)

\* The auth modal on its own page, with accounts left by earlier sessions.
InitAuth ==
    /\ InitStore(PreFiles)
    /\ InitClients({})
    /\ InitModal
    /\ InitLocal
    /\ accounts \in [Emails -> {"none", "unverified", "verified"}]

SpecAuth == InitAuth /\ [][AuthNext]_vars


Next ==
    \E c \in Clients :
        \/ SnapFolders(c)
        \/ SnapFiles(c)
        \/ SnapMembers(c)
        \/ \E tab \in FileTabs : SwitchTab(c, tab)
        \/ \E id \in Ids(dbFolders) : OpenFolder(c, id)
        \/ GoRoot(c)
        \/ \E type \in FileModalTypes : OpenModal(c, type)
        \/ CloseModal(c)
        \/ \E f \in FileNames : ChooseFile(c, f)
        \/ \E v \in FormNames : TypeName(c, v)
        \/ \E item \in Deletable(c) : AskDelete(c, item)
        \/ CancelDelete(c)
        \/ OpenUpgrade(c)
        \/ CloseUpgrade(c)
        \/ handleCreate(c)
        \/ AddDocOk(c)
        \/ AddDocFail(c)
        \/ \E p \in ProgressValues : UploadProgress(c, p)
        \/ UploadError(c)
        \/ UploadComplete(c)
        \/ GetURLOk(c)
        \/ CallbackRejected(c)
        \/ AddFileDocOk(c)
        \/ confirmDeletion(c)
        \/ DeleteBlobOk(c)
        \/ DeleteBlobFail(c)
        \/ DeleteDocOk(c)
        \/ DeleteDocFail(c)

Spec == Init /\ [][Next]_vars


\* Two dashboards of the same user, both mounted, submitting and deleting files.
InitTwoClients ==
    /\ InitStore(PreFiles)
    /\ InitClients(Clients)
    /\ InitModal
    /\ InitLocal
    /\ accounts = [e \in Emails |-> "none"]

NextTwoClients ==
    \E c \in Clients :
        \/ SnapFiles(c)
        \/ SnapMembers(c)
        \/ SwitchTab(c, "files")
        \/ OpenModal(c, "file")
        \/ \E f \in FileNames : ChooseFile(c, f)
        \/ handleCreate(c)
        \/ UploadError(c)
        \/ UploadComplete(c)
        \/ GetURLOk(c)
        \/ AddFileDocOk(c)
        \/ \E item \in Deletable(c) : AskDelete(c, item)
        \/ confirmDeletion(c)
        \/ DeleteBlobOk(c)
        \/ DeleteDocOk(c)

SpecTwoClients == InitTwoClients /\ [][NextTwoClients]_vars

\* One dashboard that uploads a file while the user closes the modal, moves
\* between tabs and folders, or leaves the page.
NextUpload ==
    \/ SnapFolders("c1")
    \/ SnapFiles("c1")
    \/ SnapMembers("c1")
    \/ \E tab \in {"overview", "files"} : SwitchTab("c1", tab)
    \/ \E id \in Ids(dbFolders) : OpenFolder("c1", id)
    \/ GoRoot("c1")
    \/ OpenModal("c1", "file")
    \/ CloseModal("c1")
    \/ \E f \in FileNames : ChooseFile("c1", f)
    \/ handleCreate("c1")
    \/ \E p \in ProgressValues : UploadProgress("c1", p)
    \/ UploadError("c1")
    \/ UploadComplete("c1")
    \/ GetURLOk("c1")
    \/ CallbackRejected("c1")
    \/ AddFileDocOk("c1")
    \/ Unmount("c1")

SpecUpload == Init /\ [][NextUpload]_vars

\* The same dashboard with a storage and document service that answers every
\* pending call of the upload: the upload task ends in its error or completion
\* callback, getDownloadURL and addDoc resolve or reject.
ServiceAnswers(c) ==
    \/ UploadError(c)
    \/ UploadComplete(c)
    \/ GetURLOk(c)
    \/ CallbackRejected(c)
    \/ AddFileDocOk(c)

SpecUploadFair == SpecUpload /\ WF_vars(ServiceAnswers("c1"))

\* ------------------------------------------- two users, four collections
\* Both users own a folder, a file, a note and a team member.
OfU2(r) == [r EXCEPT !.owner = "u2"]
InitSyncNotes == << [id |-> 7, owner |-> "u2", title |-> <<"t">>, content |-> << >>],
                    [id |-> 6, owner |-> "u1", title |-> <<"t">>, content |-> << >>] >>
InitSync ==
    /\ dbFolders = << OfU2([PreFolder EXCEPT !.id = 2]), PreFolder >>
    /\ dbFiles = << OfU2(PreFile(4)), PreFile(3) >>
    /\ dbNotes = InitSyncNotes
    /\ dbMembers = << [id |-> 9, owner |-> "u2", name |-> <<"n">>, role |-> "Viewer"],
                      [id |-> 8, owner |-> "u1", name |-> <<"n">>, role |-> "Viewer"] >>
    /\ blobs = {3, 4}
    /\ nextId = 10
    /\ started = 0
    /\ uploaded = {3, 4}
    /\ uploadFailed = {}
    /\ urlObtained = {3, 4}
    /\ InitClients({"c1"})
    /\ InitModal
    /\ InitLocal
    /\ accounts = [e \in Emails |-> "none"]

NextSync ==
    \/ \E c \in Clients :
        \/ \E u \in Uids : Mount(c, u)
        \/ Unmount(c)
        \/ SnapFolders(c)
        \/ SnapFiles(c)
        \/ SnapNotes(c)
        \/ SnapMembers(c)
    \/ handleSignOut("c1")
    \/ SwitchTab("c1", "notes")
    \/ OpenModal("c1", "note")
    \/ \E v \in FormTitles : TypeTitle("c1", v)
    \/ handleCreate("c1")
    \/ AddDocOk("c1")
    \/ \E item \in Deletable("c1") : AskDelete("c1", item)
    \/ confirmDeletion("c1")
    \/ DeleteDocOk("c1")

SpecSync == InitSync /\ [][NextSync]_vars

\* One dashboard that edits the notes and a second one of the same user that
\* comes and goes; snapshots are eventually delivered to a registered
\* listener.
NextSyncFair ==
    \/ \E c \in Clients :
        \/ SnapFolders(c)
        \/ SnapFiles(c)
        \/ SnapNotes(c)
        \/ SnapMembers(c)
    \/ Mount("c2", "u1")
    \/ Unmount("c2")
    \/ SwitchTab("c1", "notes")
    \/ OpenModal("c1", "note")
    \/ \E v \in FormTitles : TypeTitle("c1", v)
    \/ handleCreate("c1")
    \/ AddDocOk("c1")
    \/ \E item \in Deletable("c1") : AskDelete("c1", item)
    \/ confirmDeletion("c1")
    \/ DeleteDocOk("c1")

SpecSyncFair ==
    /\ InitSync
    /\ [][NextSyncFair]_vars
    /\ \A c \in Clients :
        /\ WF_vars(SnapFolders(c))
        /\ WF_vars(SnapFiles(c))
        /\ WF_vars(SnapNotes(c))
        /\ WF_vars(SnapMembers(c))

\* ------------------------------------------------------------- search
\* A store whose names and titles differ in case and in letters, and the
\* queries typed into the search bar.
SearchNames == { <<"a">>, <<"A", "b">>, <<"B">> }
SearchFolderIds == {NoId, 1}
Queries == { << >>, <<"a">>, <<"B">>, <<"a", "B">>, <<"b", "a">>, <<"t">> }
SearchFolders == << [id |-> 2, owner |-> "u1", name |-> <<"A", "b">>],
                    [id |-> 1, owner |-> "u1", name |-> <<"b">>] >>
SearchNotes == << [id |-> 7, owner |-> "u1", title |-> <<"T", "a">>, content |-> <<"b">>],
                  [id |-> 6, owner |-> "u1", title |-> <<"b">>, content |-> <<"t">>] >>
SearchFile(i, n, fid) == [PreFile(i) EXCEPT !.name = n, !.folderId = fid]

InitSearch ==
    /\ \E n1, n2 \in SearchNames : \E f1, f2 \in SearchFolderIds :
            dbFiles = << SearchFile(5, <<"a">>, 2), SearchFile(4, n2, f2),
                         SearchFile(3, n1, f1) >>
    /\ dbFolders = SearchFolders
    /\ dbNotes = SearchNotes
    /\ dbMembers = << >>
    /\ blobs = {3, 4, 5}
    /\ nextId = 8
    /\ started = 0
    /\ uploaded = {3, 4, 5}
    /\ uploadFailed = {}
    /\ urlObtained = {3, 4, 5}
    /\ InitClients({"c1"})
    /\ InitModal
    /\ InitLocal
    /\ accounts = [e \in Emails |-> "none"]

NextSearch ==
    \/ SnapFolders("c1")
    \/ SnapFiles("c1")
    \/ SnapNotes("c1")
    \/ SnapMembers("c1")
    \/ \E tab \in Tabs : SwitchTab("c1", tab)
    \/ \E id \in Ids(dbFolders) : OpenFolder("c1", id)
    \/ GoRoot("c1")
    \/ \E q \in Queries : SetSearchQuery("c1", q)

SpecSearch == InitSearch /\ [][NextSearch]_vars

\* ================================================= local dashboard (pages)
\* What no action of the local dashboard changes.
LocalSame == UNCHANGED <<dashVars, authVars>>

\* renderFiles: the folders and files of the current folder.
displayFolders == SelectSeq(localFolders, LAMBDA f : f.parentId = currentFolder)
displayFiles == SelectSeq(localFiles, LAMBDA f : f.folderId = currentFolder)

\* The page behind the modal's backdrop can be clicked.
LocalPageFree == localModalOpen = "none"

\* "New Folder" and "Add File": setModalOpen({ type }); the modal is rendered
\* with a new, empty input element.
LocalOpenModal(type) ==
    /\ LocalPageFree
    /\ localModalOpen' = type
    /\ input' = EmptyInput
    /\ UNCHANGED <<localFolders, localFiles, localActiveTab, currentFolder,
                   localIsSubmitting, newItemName, localSelectedFile, localPc, localHv,
                   localNextId>>
    /\ LocalSame

\* Backdrop and Cancel: setModalOpen({ type: null }).
LocalCloseModal ==
    /\ localModalOpen # "none"
    /\ localModalOpen' = "none"
    /\ UNCHANGED <<localFolders, localFiles, localActiveTab, currentFolder,
                   localIsSubmitting, newItemName, localSelectedFile, input, localPc,
                   localHv, localNextId>>
    /\ LocalSame

\* onChange of the text input: setNewItemName(e.target.value).
LocalTypeName(v) ==
    /\ localModalOpen = "folder"
    /\ v # input.text
    /\ input' = [input EXCEPT !.text = v]
    /\ newItemName' = v
    /\ UNCHANGED <<localFolders, localFiles, localActiveTab, currentFolder, localModalOpen,
                   localIsSubmitting, localSelectedFile, localPc, localHv, localNextId>>
    /\ LocalSame

\* onChange of the file input: setSelectedFile(e.target.files?.[0] || null).
LocalChooseFile(f) ==
    /\ localModalOpen = "file"
    /\ f # input.file
    /\ input' = [input EXCEPT !.file = f]
    /\ localSelectedFile' = f
    /\ UNCHANGED <<localFolders, localFiles, localActiveTab, currentFolder, localModalOpen,
                   localIsSubmitting, newItemName, localPc, localHv, localNextId>>
    /\ LocalSame

\* Overview button: setCurrentFolder(null); setActiveTab('overview').
\* Files button: setActiveTab('files').
LocalSwitchTab(tab) ==
    /\ LocalPageFree
    /\ tab # localActiveTab
    /\ localActiveTab' = tab
    /\ currentFolder' = IF tab = "overview" THEN NoId ELSE currentFolder
    /\ UNCHANGED <<localFolders, localFiles, localModalOpen, localIsSubmitting,
                   newItemName, localSelectedFile, input, localPc, localHv, localNextId>>
    /\ LocalSame

\* Click on a folder row: setCurrentFolder(folder).
LocalOpenFolder(id) ==
    /\ LocalPageFree
    /\ localActiveTab = "files"
    /\ id \in Ids(displayFolders)
    /\ currentFolder' = id
    /\ UNCHANGED <<localFolders, localFiles, localActiveTab, localModalOpen,
                   localIsSubmitting, newItemName, localSelectedFile, input, localPc,
                   localHv, localNextId>>
    /\ LocalSame

\* Create button (disabled={isSubmitting}): setIsSubmitting(true), then the
\* simulated delay is awaited; the rest of the handler uses the values of the
\* render in which the button was clicked.
LocalHandleCreate ==
    /\ localModalOpen # "none"
    /\ ~localIsSubmitting
    /\ localNextId <= MaxOps
    /\ localIsSubmitting' = TRUE
    /\ localPc' = "delay"
    /\ localHv' = [type |-> localModalOpen, name |-> newItemName,
                   file |-> localSelectedFile, parentId |-> currentFolder,
                   folders |-> localFolders, files |-> localFiles]
    /\ UNCHANGED <<localFolders, localFiles, localActiveTab, currentFolder, localModalOpen,
                   newItemName, localSelectedFile, input, localNextId>>
    /\ LocalSame

\* The item handleCreate builds for a folder and for a file.
NewFolder == [id |-> localNextId, name |-> OrDefault(localHv.name, Untitled),
              parentId |-> localHv.parentId]
NewFile == [id |-> localNextId, name |-> OrDefault(localHv.name, localHv.file),
            folderId |-> localHv.parentId]

\* After the delay: the item is put in front of its list, the modal closed
\* and the name reset.
LocalCreateDone ==
    /\ localPc = "delay"
    /\ localFolders' = IF localHv.type = "folder"
                          THEN Prepend(NewFolder, localHv.folders) ELSE localFolders
    /\ localFiles' = IF localHv.type = "file" /\ localHv.file # NoFile
                        THEN Prepend(NewFile, localHv.files) ELSE localFiles
    /\ localNextId' = localNextId + 1
    /\ localModalOpen' = "none"
    /\ localIsSubmitting' = FALSE
    /\ newItemName' = << >>
    /\ localPc' = "idle"
    /\ localHv' = NoLocalHandler
    /\ UNCHANGED <<localActiveTab, currentFolder, localSelectedFile, input>>
    /\ LocalSame

LocalNext ==
    \/ \E type \in FileModalTypes : LocalOpenModal(type)
    \/ LocalCloseModal
    \/ \E v \in FormNames \cup {<< >>} : LocalTypeName(v)
    \/ \E f \in FileNames \cup {NoFile} : LocalChooseFile(f)
    \/ \E tab \in {"overview", "files"} : LocalSwitchTab(tab)
    \/ \E id \in Ids(localFolders) : LocalOpenFolder(id)
    \/ LocalHandleCreate
    \/ LocalCreateDone

\* The local dashboard on its own page, as first rendered.
InitLocalPage ==
    /\ InitStore(PreFiles)
    /\ InitClients({})
    /\ InitModal
    /\ InitLocal
    /\ accounts = [e \in Emails |-> "none"]

SpecLocal == InitLocalPage /\ [][LocalNext]_vars

\* ================================================================== claims
Calls(r) == { req[r].calls[i] : i \in 1..Len(req[r].calls) }
Finishes(r) == req[r].pc # "done" /\ req'[r].pc = "done"
FileRecords == { dbFiles[i] : i \in 1..Len(dbFiles) }

\* C1: a handleSignIn invocation that the provider answered with an unverified
\* user never calls onClose, never navigates to '#/dashboard', and has issued
\* sendEmailVerification.
C1_UnverifiedSignInBlocked ==
    \A r \in Requests :
        (req[r].kind = "signin" /\ req[r].authenticated /\ ~req[r].emailVerified)
        => /\ ~req[r].closed
           /\ ~req[r].navigated
           /\ "sendEmailVerification" \in Calls(r)

C1_Witness ==
    \E r \in Requests :
        /\ req[r].kind = "signin" /\ req[r].authenticated /\ ~req[r].emailVerified
        /\ req[r].pc = "done"

\* C2: when a handleSignIn invocation that authenticated an unverified user
\* finishes, signOut was called, nobody is signed in and the modal's mode is
\* 'verification-sent', whatever sendEmailVerification answered.
C2_UnverifiedSignInEndsSignedOut ==
    [][\A r \in Requests :
        (Finishes(r) /\ req[r].kind = "signin" /\ req[r].authenticated
                     /\ ~req[r].emailVerified)
        => /\ "signOut" \in Calls(r)
           /\ currentUser' = NoUser
           /\ mode' = "verification-sent"]_vars

\* C3: when a handleSignUp invocation that created an account finishes, it has
\* called create, sendEmailVerification and signOut in this order, nobody is
\* signed in, the mode is 'verification-sent', and it has not navigated.
C3_SignUpEndsSignedOut ==
    [][\A r \in Requests :
        (Finishes(r) /\ req[r].kind = "signup" /\ req[r].authenticated)
        => /\ req[r].calls = <<"createUserWithEmailAndPassword",
                               "sendEmailVerification", "signOut">>
           /\ currentUser' = NoUser
           /\ mode' = "verification-sent"
           /\ ~req'[r].navigated]_vars

\* C4: a submission of the file form while the synchronized list holds
\* FILE_LIMIT or more files starts no upload and writes no record, in any folder.
C4_NoUploadAtLimit ==
    [][\A c \in Clients :
        (handleCreate(c) /\ modalOpen[c] = "file" /\ Len(files[c]) >= FILE_LIMIT)
        => /\ pc'[c] = "idle"
           /\ ~isSubmitting'[c]
           /\ dbVars' = dbVars]_vars

C4_Witness ==
    \E c \in Clients :
        /\ last[c] = "limit"
        /\ currentFolderId[c] # NoId
        /\ Len(files[c]) >= FILE_LIMIT
        /\ Len(filteredFiles(c)) < FILE_LIMIT

\* C5: the files collection never holds more than FILE_LIMIT records.
C5_AtMostLimitRecords == \A u \in Uids : Len(OfUser(dbFiles, u)) <= FILE_LIMIT

\* C6: a file submission rejected at the limit opens the upgrade modal, leaves
\* the create modal open with the selected file, and ends with isSubmitting false.
C6_RejectionOpensUpsell ==
    [][\A c \in Clients :
        (handleCreate(c) /\ modalOpen[c] = "file" /\ selectedFile[c] # NoFile
                         /\ Len(files[c]) >= FILE_LIMIT)
        => /\ isUpgradeModalOpen'[c]
           /\ modalOpen'[c] = "file"
           /\ selectedFile'[c] = selectedFile[c]
           /\ ~isSubmitting'[c]
           /\ pc'[c] = "idle"]_vars

C6_Witness ==
    \E c \in Clients :
        /\ last[c] = "limit"
        /\ isUpgradeModalOpen[c]
        /\ modalOpen[c] = "file"
        /\ selectedFile[c] # NoFile
        /\ ~isSubmitting[c]

\* C7: when deleteObject fails in confirmDeletion (the handler leaves the blob
\* deletion and the blob is still there), the handler finishes without deleting
\* the record and without clearing the delete confirmation.
C7_BlobFailureKeepsRecord ==
    [][\A c \in Clients :
        (pc[c] = "del_blob" /\ pc'[c] # "del_blob" /\ blobs' = blobs)
        => /\ pc'[c] = "idle"
           /\ ~isSubmitting'[c]
           /\ dbFiles' = dbFiles
           /\ deleteConfirmation'[c] = deleteConfirmation[c]]_vars

C7_Witness ==
    \E c \in Clients :
        /\ last[c] = "blob_failed"
        /\ deleteConfirmation[c].type = "files"
        /\ deleteConfirmation[c].id \in Ids(dbFiles)
        /\ deleteConfirmation[c].storagePath \in blobs

\* C8: while deleteDoc of a file is awaited its blob is already deleted; and a
\* failing deleteDoc changes neither the blob store nor the files collection.
C8_BlobThenRecordNoRollback ==
    /\ [](\A c \in Clients :
            (pc[c] = "del_doc" /\ hv[c].target.type = "files")
            => hv[c].target.storagePath \notin blobs)
    /\ [][\A c \in Clients :
            (pc[c] = "del_doc" /\ last'[c] = "doc_failed" /\ pc'[c] = "idle")
            => (blobs' = blobs /\ dbFiles' = dbFiles)]_vars

C8_Witness ==
    \E c \in Clients :
        /\ last[c] = "doc_failed"
        /\ deleteConfirmation[c].type = "files"
        /\ deleteConfirmation[c].id \in Ids(dbFiles)
        /\ deleteConfirmation[c].storagePath \notin blobs

\* C9: whenever no create or delete is in flight, the file records and the
\* blobs correspond one to one.
C9_RecordsMatchBlobs ==
    (\A c \in Clients : pc[c] = "idle")
    => /\ \A f \in FileRecords : f.storagePath \in blobs
       /\ \A b \in blobs : \E f \in FileRecords : f.storagePath = b

\* C10: every file record belongs to an upload that completed and whose
\* download URL was obtained; no upload that reported an error has a record.
C10_RecordOnlyAfterUpload ==
    \A f \in FileRecords :
        /\ f.storagePath \in uploaded
        /\ f.storagePath \in urlObtained
        /\ f.storagePath \notin uploadFailed
        /\ f.downloadURL = URLOf(f.storagePath)

C10_Witness ==
    /\ \E f \in FileRecords : f.id > PreFiles
    /\ uploadFailed # {}

\* The claims' notion of a match: the query occurs in the name as a substring,
\* letters compared without regard to case.
CasePairs == { <<"a", "A">>, <<"b", "B">>, <<"n", "N">>, <<"t", "T">> }
SameLetter(x, y) == x = y \/ <<x, y>> \in CasePairs \/ <<y, x>> \in CasePairs
ContainsIgnoringCase(s, q) ==
    \E i \in 0..(Len(s) - Len(q)) : \A j \in 1..Len(q) : SameLetter(s[i + j], q[j])
InCurrentFolder(c, f) ==
    IF currentFolderId[c] = NoId THEN f.folderId = NoId
                                 ELSE f.folderId = currentFolderId[c]

\* C11: on the files tab the displayed files are exactly the files of the
\* local list that lie in the current folder and whose name contains the
\* query ignoring case; the displayed folders are exactly the folders whose
\* name contains the query ignoring case, and only at root.
C11_FilesTabShowsMatches ==
    \A c \in Clients :
        activeTab[c] = "files"
        => /\ displayedFiles(c) =
                SelectSeq(files[c], LAMBDA f :
                    InCurrentFolder(c, f) /\ ContainsIgnoringCase(f.name, searchQuery[c]))
           /\ displayedFolders(c) =
                SelectSeq(folders[c], LAMBDA f :
                    currentFolderId[c] = NoId
                    /\ ContainsIgnoringCase(f.name, searchQuery[c]))

\* A query in another case than the names hides some rows and keeps others,
\* among files and among folders.
C11_Witness ==
    /\ activeTab["c1"] = "files"
    /\ searchQuery["c1"] = <<"B">>
    /\ currentFolderId["c1"] = NoId
    /\ Len(displayedFiles("c1")) > 0
    /\ Len(displayedFiles("c1")) < Len(files["c1"])
    /\ Len(displayedFolders("c1")) = 2
    /\ \E i \in 1..Len(files["c1"]) :
            files["c1"][i].folderId = NoId /\ files["c1"][i].name = <<"a">>

\* C12: on the notes tab the displayed notes are exactly the notes whose
\* title contains the search query ignoring case.
C12_NotesTabShowsMatches ==
    \A c \in Clients :
        activeTab[c] = "notes"
        => displayedNotes(c) =
              SelectSeq(notes[c], LAMBDA n : ContainsIgnoringCase(n.title, searchQuery[c]))

ListsOf(c) == <<folders[c], files[c], notes[c], members[c]>>
ItemsOf(c) == UNION { { l[i] : i \in 1..Len(l) } :
                        l \in {folders[c], files[c], notes[c], members[c]} }
\* Ids grow with the creation time: newest first is descending by id.
NewestFirst(l) == \A i, j \in 1..Len(l) : i < j => l[i].id > l[j].id
Synced(c) ==
    /\ folders[c] = OfUser(dbFolders, user[c])
    /\ files[c] = OfUser(dbFiles, user[c])
    /\ notes[c] = OfUser(dbNotes, user[c])
    /\ members[c] = OfUser(dbMembers, user[c])

\* C13: a step of a mounted dashboard that changes one of its four lists
\* leaves the list equal to the user's collection, newest first, and leaves
\* the other three lists as they were.
C13_SnapshotReplacesOneList ==
    [][\A c \in Clients :
        (mounted[c] /\ mounted'[c]) =>
        /\ folders'[c] # folders[c]
            => /\ folders'[c] = OfUser(dbFolders, user[c]) /\ NewestFirst(folders'[c])
               /\ <<files[c], notes[c], members[c]>>' = <<files[c], notes[c], members[c]>>
        /\ files'[c] # files[c]
            => /\ files'[c] = OfUser(dbFiles, user[c]) /\ NewestFirst(files'[c])
               /\ <<folders[c], notes[c], members[c]>>' = <<folders[c], notes[c], members[c]>>
        /\ notes'[c] # notes[c]
            => /\ notes'[c] = OfUser(dbNotes, user[c]) /\ NewestFirst(notes'[c])
               /\ <<folders[c], files[c], members[c]>>' = <<folders[c], files[c], members[c]>>
        /\ members'[c] # members[c]
            => /\ members'[c] = OfUser(dbMembers, user[c]) /\ NewestFirst(members'[c])
               /\ <<folders[c], files[c], notes[c]>>' = <<folders[c], files[c], notes[c]>>
      ]_vars

\* All four lists delivered, the notes a second time after a note was added.
C13_Witness ==
    /\ mounted["c1"] /\ Synced("c1")
    /\ Len(notes["c1"]) = 2
    /\ Len(folders["c1"]) = 1 /\ Len(files["c1"]) = 1 /\ Len(members["c1"]) = 1

C15_ChangesReachLists ==
    \A c \in Clients :
        (mounted[c] /\ ~Synced(c)) ~> (~mounted[c] \/ Synced(c))

\* c2 shows a note that c1 created in this run.
C15_Witness ==
    /\ mounted["c2"] /\ Synced("c2")
    /\ \E i \in 1..Len(notes["c2"]) : notes["c2"][i].id \notin Ids(InitSyncNotes)

\* C17: the only listeners registered are those of the user the dashboard is
\* rendered for, none after teardown, and no step changes the lists of a
\* dashboard that is not mounted.
C17_TeardownUnsubscribesAll ==
    /\ [](\A c \in Clients :
            /\ listening[c] \subseteq ({user[c]} \X Collections)
            /\ ~mounted[c] => listening[c] = {})
    /\ [][\A c \in Clients :
            (~mounted[c] /\ ~mounted'[c]) => ListsOf(c)' = ListsOf(c)]_vars

\* c1 created a note for u1, was taken down, and is rendered for u2: u1's
\* collection has changed since, and c1 shows u2's notes only.
C17_Witness ==
    /\ mounted["c1"] /\ user["c1"] = "u2"
    /\ \E i \in 1..Len(dbNotes) :
            dbNotes[i].owner = "u1" /\ dbNotes[i].id \notin Ids(InitSyncNotes)
    /\ notes["c1"] = OfUser(dbNotes, "u2")
    /\ notes["c1"] # << >>

\* C16: a step that changes a local list of a dashboard is no step of
\* handleCreate or confirmDeletion: it changes neither the store nor the
\* position, closure or outcome of any handler.
C16_OnlySnapshotsWriteLists ==
    [][\A c \in Clients :
        ListsOf(c)' # ListsOf(c)
        => (dbVars' = dbVars /\ pc' = pc /\ hv' = hv /\ last' = last)]_vars

\* A create has finished and its record is not in the local list yet.
C16_Witness ==
    \E c \in Clients :
        /\ last[c] = "created" /\ pc[c] = "idle"
        /\ \E f \in FileRecords : f.id > PreFiles /\ f.id \notin Ids(files[c])

UploadInFlight(c) == pc[c] \in {"uploading", "get_url", "file_addDoc"}
\* An event of the upload itself: completion, error, URL, record write, or a
\* rejection inside the completion callback.
UploadEvent(c) ==
    \/ uploaded' # uploaded \/ uploadFailed' # uploadFailed \/ urlObtained' # urlObtained
    \/ dbFiles' # dbFiles \/ pc'[c] = "hung"

\* C18: an upload in flight moves only by its own events, whatever the user
\* does to the modal, the tab, the folder or the page; and when its record
\* write resolves, the record is in the store with the folderId captured at
\* submission.
C18_UploadNeverCancelled ==
    [][\A c \in Clients :
        /\ (UploadInFlight(c) /\ ~UploadEvent(c)) => (pc'[c] = pc[c] /\ hv'[c] = hv[c])
        /\ (pc[c] = "file_addDoc" /\ pc'[c] = "idle")
            => /\ Len(dbFiles') = Len(dbFiles) + 1
               /\ dbFiles'[1].storagePath = hv[c].path
               /\ dbFiles'[1].folderId = hv[c].folderId
      ]_vars

\* The page was left while the file, submitted inside a folder, was being
\* uploaded; the upload went on to the record write.
C18_Witness ==
    \E c \in Clients :
        /\ ~mounted[c] /\ pc[c] = "file_addDoc"
        /\ hv[c].folderId # NoId /\ hv[c].path \in blobs

\* C19: when the upload of a submission reports an error, the handler ends at
\* once: no further attempt, no record, no blob, isSubmitting false, the
\* modal and the selected file as they were.
C19_NoRetryAfterUploadError ==
    [][\A c \in Clients :
        (pc[c] = "uploading" /\ uploadFailed' # uploadFailed)
        => /\ pc'[c] = "idle" /\ ~isSubmitting'[c]
           /\ last'[c] = "upload_failed"
           /\ dbFiles' = dbFiles /\ blobs' = blobs /\ started' = started
           /\ modalOpen'[c] = modalOpen[c] /\ selectedFile'[c] = selectedFile[c]
      ]_vars

C19_Witness ==
    \E c \in Clients :
        /\ last[c] = "upload_failed" /\ pc[c] = "idle" /\ ~isSubmitting[c]
        /\ modalOpen[c] = "file" /\ selectedFile[c] # NoFile
        /\ uploadFailed # {} /\ uploadFailed \cap blobs = {}
        /\ Len(dbFiles) = PreFiles

\* C20: after any failing backend call of handleCreate or confirmDeletion the
\* handler has finished with isSubmitting false, and the modal, the delete
\* confirmation, the form inputs and the selected file are as before.
C20_FailureLeavesPageUsable ==
    [][\A c \in Clients :
        (\/ AddDocFail(c) \/ UploadError(c) \/ CallbackRejected(c)
         \/ DeleteBlobFail(c) \/ DeleteDocFail(c))
        => /\ pc'[c] = "idle" /\ ~isSubmitting'[c]
           /\ modalOpen'[c] = modalOpen[c]
           /\ deleteConfirmation'[c] = deleteConfirmation[c]
           /\ formData'[c] = formData[c] /\ selectedFile'[c] = selectedFile[c]
      ]_vars

\* ------------------------------------------------------------------------
\* The steps in which an awaited identity-provider call of request r rejects.
CallRejected(r) ==
    \/ CreateUserFail(r)
    \/ SignInFail(r)
    \/ SendVerificationFail(r)
    \/ SignOutFail(r)
    \/ ResetFail(r)
    \/ PopupFail(r, FALSE)

\* What every rejected call leaves behind: not loading, the mode as before,
\* the modal neither closed nor the page navigated.
CaughtQuietly(r) ==
    /\ ~authIsLoading'
    /\ mode' = mode
    /\ isOpen' = isOpen
    /\ hash' = hash
    /\ ~req'[r].navigated /\ ~req'[r].closed

\* C21 (as stated): every rejected identity-provider call, the closed popup
\* included, ends with an error message set, not loading, the mode unchanged
\* and no navigation.
C21_EveryFailureShowsMessage ==
    [][\A r \in Requests :
        (CallRejected(r) \/ PopupFail(r, TRUE))
        => (error' # "none" /\ CaughtQuietly(r))]_vars

\* C21: every rejected identity-provider call ends not loading, with the mode
\* unchanged and no navigation; it sets an error message, except that a popup
\* closed by the user leaves the message as it was.
C21_FailuresAreCaught ==
    [][\A r \in Requests :
        /\ CallRejected(r) => (error' # "none" /\ CaughtQuietly(r))
        /\ PopupFail(r, TRUE) => (error' = error /\ CaughtQuietly(r))]_vars

C21_Witness ==
    \E r \in Requests :
        /\ req[r].kind = "google" /\ req[r].pc = "done" /\ ~req[r].authenticated
        /\ error = "provider" /\ ~authIsLoading /\ mode = "default"
        /\ isOpen /\ hash # "#/dashboard"

\* C22: when a handleGoogleSignIn invocation whose popup returned an
\* unverified user finishes, sendEmailVerification and signOut were called,
\* nobody is signed in, the mode is 'verification-sent' and the handler has
\* neither closed the modal nor navigated; it navigates only for a verified user.
C22_GoogleUnverifiedEndsSignedOut ==
    [][\A r \in Requests :
        /\ (Finishes(r) /\ req[r].kind = "google" /\ req[r].authenticated
                        /\ ~req[r].emailVerified)
           => /\ "sendEmailVerification" \in Calls(r)
              /\ "signOut" \in Calls(r)
              /\ currentUser' = NoUser
              /\ mode' = "verification-sent"
              /\ ~req'[r].closed /\ ~req'[r].navigated
        /\ (req'[r].kind = "google" /\ req'[r].navigated) => req'[r].emailVerified]_vars

\* C23: a handleSignIn or handleSignUp step with an empty email or password,
\* and a handlePasswordReset step with an empty email, starts no request and
\* makes no provider call, sets an error message and leaves mode and isLoading
\* (false) as they were; and the mode becomes 'reset-sent' only in the step in
\* which sendPasswordResetEmail resolved.
C23_ValidationBeforeCalls ==
    [][/\ (\/ (handleSignIn \/ handleSignUp) /\ (email = "" \/ password = "")
           \/ handlePasswordReset /\ email = "")
          => /\ req' = req /\ nreq' = nreq
             /\ UNCHANGED providerVars
             /\ error' # "none"
             /\ mode' = mode
             /\ ~authIsLoading /\ ~authIsLoading'
       /\ (mode # "reset-sent" /\ mode' = "reset-sent")
          => \E r \in Requests :
                /\ ResetOk(r)
                /\ req[r].calls = <<"sendPasswordResetEmail">>]_vars

C23_Witness ==
    /\ isOpen /\ mode = "default" /\ authActiveTab = "signin"
    /\ email # "" /\ password = ""
    /\ error = "required" /\ ~authIsLoading
    /\ nreq = 0 /\ \A r \in Requests : req[r].calls = << >>

\* The handler invocations of the modal that await a provider call.
InFlight == { r \in Requests : req[r].pc \notin {"idle", "done"} }

\* C28: at most one handler invocation of the modal awaits a provider call at
\* a time, and no step of an invocation started before the modal was closed
\* and reopened changes the mode, the tab or the error of the reopened modal.
C28_OneRequestAndNoStaleEffect ==
    [][/\ Cardinality(InFlight') <= 1
       /\ \A r \in Requests :
            (req[r].beforeReopen /\ req'[r].pc # req[r].pc)
            => UNCHANGED <<mode, authActiveTab, error>>]_vars

\* C24: every handleCreate invocation that awaits a backend call eventually
\* finishes with isSubmitting false, whatever the backend answers.
C24_CreateEventuallyFinishes ==
    (pc["c1"] \in {"uploading", "get_url", "file_addDoc", "create_addDoc"})
    ~> (pc["c1"] = "idle" /\ ~isSubmitting["c1"])

\* C25: every file record's folderId is null or the id of a folder in the
\* folders collection of the record's owner.
C25_FilesReferToExistingFolders ==
    \A i \in 1..Len(dbFiles) :
        \/ dbFiles[i].folderId = NoId
        \/ dbFiles[i].folderId \in Ids(OfUser(dbFolders, dbFiles[i].owner))

\* C26: whenever a mounted dashboard has left its loading state, each of the
\* four listeners has delivered its first snapshot.
C26_LoadedMeansAllDelivered ==
    \A c \in Clients :
        (mounted[c] /\ ~isLoading[c]) => delivered[c] = Collections

\* C27: a mounted dashboard with a create or delete in flight has isSubmitting
\* true; a step that starts a create or a delete is taken with no mutation in
\* flight and isSubmitting false, and sets it; and isSubmitting goes back to
\* false only in a step after which no mutation of the instance is in flight.
C27_OneMutationInFlight ==
    [][\A c \in Clients :
        /\ (mounted[c] /\ pc[c] # "idle") => isSubmitting[c]
        /\ (started' = started + 1 /\ hv'[c] # hv[c])
           => (pc[c] = "idle" /\ ~isSubmitting[c] /\ isSubmitting'[c])
        /\ (isSubmitting[c] /\ ~isSubmitting'[c])
           => (pc'[c] = "idle" \/ ~mounted'[c])]_vars

C27_Witness ==
    /\ mounted["c1"] /\ isSubmitting["c1"]
    /\ pc["c1"] \in {"del_blob", "del_doc"}
    /\ deleteConfirmation["c1"].id = NoId
    /\ modalOpen["c1"] = "folder" /\ formData["c1"].name # << >>

\* ------------------------------------------------------------------------
\* The documents of one collection, as <<owner, id>> pairs.
DocsOf(t) ==
    LET s == CASE t = "folders" -> dbFolders
               [] t = "files" -> dbFiles
               [] t = "notes" -> dbNotes
               [] OTHER -> dbMembers
    IN { <<s[i].owner, s[i].id>> : i \in 1..Len(s) }
Deleting(c) == pc[c] \in {"del_blob", "del_doc"}
StoresSame == UNCHANGED <<dbFolders, dbFiles, dbNotes, dbMembers, blobs>>

\* C29: a document leaves a collection, and a blob the blob store, only as the
\* target of a confirmDeletion in flight, whose target is the item the
\* confirmation showed when Delete was pressed, an item picked from the
\* displayed rows; picking an item and cancelling leave the stores unchanged;
\* and the handler clears the confirmation only when deleteDoc resolved.
C29_DeleteOnlyWhatWasConfirmed ==
    [][/\ \A t \in Collections : \A d \in DocsOf(t) \ DocsOf(t)' :
            \E c \in Clients : /\ pc[c] = "del_doc"
                               /\ hv[c].target.type = t
                               /\ <<hv[c].uid, hv[c].target.id>> = d
       /\ \A b \in blobs \ blobs' :
            \E c \in Clients : /\ pc[c] = "del_blob"
                               /\ hv[c].target.type = "files"
                               /\ hv[c].target.storagePath = b
       /\ \A c \in Clients :
            /\ (~Deleting(c) /\ Deleting(c)')
               => /\ deleteConfirmation[c].id # NoId
                  /\ hv'[c].target = deleteConfirmation[c]
                  /\ StoresSame
            /\ (deleteConfirmation'[c] # deleteConfirmation[c]
                    /\ deleteConfirmation'[c].id # NoId)
               => (deleteConfirmation'[c] \in Deletable(c) /\ StoresSame)
            /\ (deleteConfirmation[c].id # NoId /\ deleteConfirmation'[c].id = NoId)
               => \/ pc'[c] = pc[c] /\ StoresSame
                  \/ /\ pc[c] = "del_doc" /\ last'[c] = "deleted"
                     /\ <<hv[c].uid, hv[c].target.id>> \notin DocsOf(hv[c].target.type)']_vars

C29_Witness ==
    /\ last["c1"] = "deleted" /\ deleteConfirmation["c1"].id = NoId
    /\ Len(dbFiles) = PreFiles - 1
    /\ Cardinality(blobs) = PreFiles - 1
    /\ started = 1

\* C30: in the local dashboard a Create is submitted with exactly what was
\* entered in this modal session (the name typed, the file chosen, the current
\* folder), and when it completes it puts exactly that one item in front of
\* its list: a folder, or a file if one was chosen, and keeps every item the
\* lists held.
C30_CreateAddsWhatWasEntered ==
    [][/\ (localPc = "idle" /\ localPc' = "delay")
          => /\ localHv'.type = localModalOpen
             /\ localHv'.name = input.text
             /\ localHv'.file = input.file
             /\ localHv'.parentId = currentFolder
       /\ (localPc = "delay" /\ localPc' = "idle")
          => /\ localFolders' = IF localHv.type = "folder"
                                   THEN Prepend(NewFolder, localFolders)
                                   ELSE localFolders
             /\ localFiles' = IF localHv.type = "file" /\ localHv.file # NoFile
                                 THEN Prepend(NewFile, localFiles)
                                 ELSE localFiles]_vars

====
